---- MODULE Spec2Model ----
(***************************************************************************)
(* A model of openquake/calculators/event_based.py: one run of             *)
(* EventBasedCalculator.execute, from the construction of the task         *)
(* arguments (from_sources / from_ruptures) through the parallel           *)
(* reduction with agg_dicts to check_overflow and the writing of           *)
(* gmf_data/indices.                                                       *)
(***************************************************************************)
EXTENDS Integers, Sequences, FiniteSets, TLC

(***************************************************************************)
(* Bounds of the model.                                                    *)
(***************************************************************************)
\* number of sources of the composite source model
MaxSources == 2
\* largest n_occ of a sampled rupture
MaxOcc == 2
\* TWO32 = U64(2 ** 32) (event_based.py:45) and the literal 2**32 of
\* check_overflow (event_based.py:380).  TLC's integers are 32 bit wide, so
\* the limit is scaled down; every definition below is parametric in it.
TWO32 == 4

(***************************************************************************)
(* Program constants.                                                      *)
(***************************************************************************)
MaxSites == 65536
MaxImts == 256

None == "None"

\* the sites and IMTs that GMF rows and curve contributions name; the site
\* collection and oqparam.imtls may be longer (sitecol.n, oqparam.num_imts)
Sids == {0, 1}
IMTs == <<"PGA", "SA">>

\* oqparam.imtls: the slice of levels of each named IMT; L = imtls.array size
imtls(imt) == IF imt = "PGA" THEN {1} ELSE {2}
L == 2

(***************************************************************************)
(* The logic tree: two groups, two realizations (init_logic_tree).         *)
(***************************************************************************)
R == 2
Groups == {0, 1}
rlzs_by_gsim_grp ==
    [g \in Groups |->
        IF g = 0 THEN <<<<0>>, <<1>>>>      \* two gsims, one realization each
                 ELSE <<<<0, 1>>>>]         \* one gsim, both realizations

RECURSIVE SumLen(_)
SumLen(seqs) == IF seqs = <<>> THEN 0 ELSE Len(Head(seqs)) + SumLen(Tail(seqs))

\* sum(len(rlzs) for rlzs in rlzs_by_gsim.values())
NumGsims(rlzs_by_gsim) == Len(rlzs_by_gsim)
num_rlzs(rlzs_by_gsim) == SumLen(rlzs_by_gsim)

(***************************************************************************)
(* Sequences.                                                              *)
(***************************************************************************)
RECURSIVE Concat(_)
Concat(seqs) == IF seqs = <<>> THEN <<>> ELSE Head(seqs) \o Concat(Tail(seqs))

Range(s) == {s[i] : i \in DOMAIN s}

RECURSIVE SumSeq(_)
SumSeq(s) == IF s = <<>> THEN 0 ELSE Head(s) + SumSeq(Tail(s))

\* the elements of a finite set of integers in ascending order
RECURSIVE SortSet(_)
SortSet(S) ==
    IF S = {} THEN <<>>
    ELSE LET m == CHOOSE x \in S : \A y \in S : x <= y
         IN <<m>> \o SortSet(S \ {m})

\* insert x in a sequence sorted by key(.) after the elements with key <= key(x)
RECURSIVE InsertSorted(_, _)
InsertSorted(x, s) ==
    IF s = <<>> THEN <<x>>
    ELSE IF x < Head(s) THEN <<x>> \o s
    ELSE <<Head(s)>> \o InsertSorted(x, Tail(s))

Unsorted(s) == s

\* a sort that leaves the first element where it is
SortedButFirst(s) ==
    IF s = <<>> THEN <<>> ELSE <<Head(s)>> \o SortSet(Range(Tail(s)))

\* numpy sort of an integer array (evs.sort(order='eid'))
RECURSIVE Sorted(_)
Sorted(s) == IF s = <<>> THEN <<>> ELSE InsertSorted(Head(s), Sorted(Tail(s)))

IsSorted(s) == \A i \in 1..(Len(s) - 1) : s[i] <= s[i + 1]

(***************************************************************************)
(* Ruptures and events.                                                    *)
(***************************************************************************)
\* EBRupture.get_eids(num_rlzs): the event ids of a rupture, a block of
\* n_occ * num_rlzs consecutive ids that starts at a multiple of the stride
\* given by the rupture serial
EidStride == MaxOcc * R
get_eids(rup, nrlzs) ==
    [k \in 1..(rup.n_occ * nrlzs) |-> EidStride * rup.serial + (k - 1)]

\* EBRupture.get_events(rlzs_by_gsim): the eid column of the events of one
\* rupture, one event per occurrence and realization.  The method computes
\* the eids on its own; rup.skew is their distance from the eids of get_eids,
\* 0 unless the two computations disagree (the case line 368 guards against)
ebr_get_events(rup, rlzs_by_gsim) ==
    [k \in 1..(rup.n_occ * num_rlzs(rlzs_by_gsim)) |->
        EidStride * rup.serial + (k - 1) + rup.skew]

\* get_events(ebruptures, rlzs_by_gsim): the eid column of the events
get_events(ebruptures, rlzs_by_gsim) ==
    IF ebruptures = <<>> THEN <<>>
    ELSE Concat([i \in DOMAIN ebruptures |->
                    ebr_get_events(ebruptures[i], rlzs_by_gsim)])

(***************************************************************************)
(* The datastore: a dictionary from dataset names to arrays (sequences).   *)
(***************************************************************************)
Put(d, key, value) ==
    [k \in DOMAIN d \cup {key} |-> IF k = key THEN value ELSE d[k]]

Get(d, key, default) == IF key \in DOMAIN d THEN d[key] ELSE default

\* datastore.extend(key, array): append, creating the dataset when missing
extend(d, key, array) == Put(d, key, Get(d, key, <<>>) \o array)

EmptyDict == [k \in {} |-> 0]

VARIABLES
    oqparam,      \* calculation_mode, ground_motion_fields, hazard_calculation_id
    sitecol,      \* n = len(sitecol), complete = len(sitecol.complete)
    csm,          \* the sources, each with the ruptures sampling gives it
    pc,           \* the position of the run in execute
    smap,         \* build_ruptures results not yet returned (source indices)
    srcs_by_grp,  \* insertion-ordered: a sequence of [grp, srcs]
    store_queue,  \* sources _store_ruptures has still to save
    datastore,    \* dataset name -> array
    attrs,        \* dataset name -> attributes of gmf_data, events
    iterargs,     \* the task arguments genargs has still to yield
    tasks,        \* the task arguments submitted to the Starmap
    results,      \* task index -> result of a finished task
    folded,       \* the indices of the tasks whose result was folded
    acc,          \* the accumulator of the reduction: r -> ProbabilityMap
    offset,       \* self.offset
    indices,      \* self.indices: (sid, 0|1) -> list
    idx,          \* self.idx, -1 while unset
    eid2idx,      \* the cached property, a sequence of <<eid, idx>> pairs
    gmdata,       \* self.gmdata, the number of rows it accounts for
    checks,       \* the number of calls of check_overflow so far
    error,        \* the exception that ended the run, None if none
    retval,       \* what execute returned
    builder,      \* one build_ruptures call looked at step by step
    arg_gen,      \* one RiskCalculator.task_arg_gen call looked at step by step
    getter,       \* one HazardCurveGetterPerAsset and the queries it made
    gen_args,     \* one genargs generator and the argument tuples pulled from it
    call          \* one call of a function: its arguments and what it returned

config == <<oqparam, sitecol, csm>>
sources_vars == <<smap, srcs_by_grp, store_queue>>
starmap_vars == <<iterargs, tasks, results, folded>>
reducer_vars == <<acc, offset, indices, idx, eid2idx, gmdata>>
vars == <<oqparam, sitecol, csm, pc, smap, srcs_by_grp, store_queue, datastore,
          attrs, iterargs, tasks, results, folded, acc, offset, indices, idx,
          eid2idx, gmdata, checks, error, retval, builder, arg_gen, getter,
          gen_args, call>>

\* the state of what is looked at on its own, outside a run of execute
engine_vars == <<arg_gen, getter, gen_args, call>>

ucerf == oqparam.calculation_mode = "ucerf_hazard"

\* the frame of a build_ruptures call: the block of sources srcs, the
\* parameter ruptures_per_block, the number i of sources the loop has taken,
\* the locals acc and n, the batches yielded so far and the position.  acc
\* holds the content of the list object that the local names, ref is the
\* identity of that object, dead holds the lists the local names no more, and
\* held is what the consumer got: the identity of the object of each yield,
\* while yielded is the content that object had when it was yielded
\* (NoBuilder: the runs that take each build_ruptures result as a whole)
NoBuilder ==
    [srcs |-> <<>>, ruptures_per_block |-> 0, i |-> 0, acc |-> <<>>, n |-> 0,
     ref |-> 1, dead |-> EmptyDict, held |-> <<>>,
     yielded |-> <<>>, pc |-> "idle"]

\* the frame of a task_arg_gen call: the asset counts of the taxonomies in
\* the order of items(), block_size, the position t of the outer loop and
\* offset of the inner one, num_tasks, the (taxonomy, offset) pairs yielded
\* (NoArgGen: no call)
NoArgGen ==
    [taxonomies_asset_count |-> <<>>, block_size |-> 1, t |-> 1, offset |-> 0,
     num_tasks |-> 0, yielded |-> <<>>, pc |-> "idle"]

\* a getter: the dictionary _cache (site.wkt -> value), the arguments of the
\* queries it executed, and the (site.wkt, value) of each get_by_site call that
\* returned (NoGetter: no getter)
NoGetter ==
    [cache |-> EmptyDict, queries |-> <<>>, returned |-> <<>>, pc |-> "idle"]

\* the parameter dictionaries of a genargs generator: pars maps the identity
\* of a dictionary to its content (its 'samples', 0 while not set), 0 being
\* the identity of the dictionary that execute passed; grps are the groups of
\* the rupture blocks still to come, pulled the tuples the consumer took, each
\* with the group of its ruptures and the identity of its dictionary
\* (NoGenArgs: no generator)
NoGenArgs ==
    [kind |-> "none", samples_by_grp |-> [g \in Groups |-> 1], grps |-> <<>>,
     pars |-> [ref \in {0} |-> [samples |-> 0]], pulled |-> <<>>,
     pc |-> "idle"]

\* (NoCall: no call)
NoCall == [fn |-> "none", args |-> <<>>, result |-> <<>>, pc |-> "idle"]

NoEngine ==
    /\ arg_gen = NoArgGen
    /\ getter = NoGetter
    /\ gen_args = NoGenArgs
    /\ call = NoCall

(***************************************************************************)
(* The composite source model: MaxSources sources at most, each of one     *)
(* group, for which sampling yields no rupture or one rupture with n_occ   *)
(* in 1..MaxOcc.  The serials follow the order of the sources.             *)
(***************************************************************************)
SerialOf(occ, i) == Cardinality({j \in 1..(i - 1) : occ[j] > 0})

MakeCsm(n, grp, occ) ==
    [i \in 1..n |->
        [src_group_id |-> grp[i],
         eb_ruptures |->
            IF occ[i] = 0 THEN <<>>
            ELSE <<[serial |-> SerialOf(occ, i), grp_id |-> grp[i],
                    n_occ |-> occ[i], skew |-> 0, sids |-> Sids]>>]]

CsmChoices ==
    UNION {{MakeCsm(n, grp, occ) :
               grp \in [1..n -> Groups], occ \in [1..n -> 0..MaxOcc]} :
           n \in 0..MaxSources}

AllRuptures(sources) ==
    Concat([i \in DOMAIN sources |-> sources[i].eb_ruptures])

\* the events of a stored calculation: saved per rupture, then sorted
StoredEvents(rups) ==
    Sorted(Concat([i \in DOMAIN rups |->
        get_events(<<rups[i]>>, rlzs_by_gsim_grp[rups[i].grp_id])]))

\* len(sitecol), len(sitecol.complete), len(oqparam.imtls)
SizeChoices ==
    {<<2, 3, 2>>, <<MaxSites + 1, MaxSites + 1, MaxImts>>,
     <<MaxSites, MaxSites, MaxImts + 1>>}

\* ProbabilityMap(L): no site yet
ProbabilityMap == EmptyDict

\* zerodict (event_based.py:219)
zerodict == [r \in 0..(R - 1) |-> ProbabilityMap]

ModeChoices ==
    {[calculation_mode |-> m, ground_motion_fields |-> g,
      hazard_calculation_id |-> h] :
        m \in {"event_based", "ucerf_hazard"}, g \in BOOLEAN, h \in {0, 1}}
    \ {[calculation_mode |-> "ucerf_hazard", ground_motion_fields |-> g,
        hazard_calculation_id |-> 1] : g \in BOOLEAN}

\* The state at event_based.py:407, after the assignments of lines 394-406.
\* With a hazard_calculation_id the ruptures and events are the stored ones.
InitWith(modes, sizes, csms) ==
    /\ \E m \in modes, sz \in sizes :
          /\ oqparam = [calculation_mode |-> m.calculation_mode,
                        ground_motion_fields |-> m.ground_motion_fields,
                        hazard_calculation_id |-> m.hazard_calculation_id,
                        num_imts |-> sz[3]]
          /\ sitecol = [n |-> sz[1], complete |-> sz[2]]
    /\ csm \in csms
    /\ pc = "execute"
    /\ smap = {}
    /\ srcs_by_grp = <<>>
    /\ store_queue = <<>>
    /\ datastore =
          IF oqparam.hazard_calculation_id # 0
          THEN [k \in {"ruptures", "events"} |->
                   IF k = "ruptures" THEN AllRuptures(csm)
                   ELSE StoredEvents(AllRuptures(csm))]
          ELSE EmptyDict
    /\ attrs = EmptyDict
    /\ iterargs = <<>>
    /\ tasks = <<>>
    /\ results = EmptyDict
    /\ folded = {}
    /\ acc = EmptyDict
    /\ offset = 0
    /\ indices = EmptyDict
    /\ idx = -1
    /\ eid2idx = <<>>
    /\ gmdata = 0
    /\ checks = 0
    /\ error = None
    /\ retval = None
    /\ builder = NoBuilder
    /\ NoEngine

Init == InitWith(ModeChoices, SizeChoices, CsmChoices)

(***************************************************************************)
(* from_ruptures and from_sources: the task arguments.                     *)
(***************************************************************************)
\* RuptureGetter(parent, slc, grp_id): the stored ruptures of one group
RuptureGetter(rups, grp_id) ==
    LET InGrp(rup) == rup.grp_id = grp_id IN SelectSeq(rups, InGrp)

\* from_ruptures.genargs with concurrent_tasks = 1: one slice of the U stored
\* ruptures (none when U = 0), and one task per group of rlzs_by_gsim_grp
from_ruptures(d) ==
    LET rups == d["ruptures"]
        grps == SortSet(Groups)
    IN IF Len(rups) = 0 THEN <<>>
       ELSE [i \in DOMAIN grps |->
                [ruptures |-> RuptureGetter(rups, grps[i]),
                 grp_id |-> grps[i]]]

\* ruptures.sort(key=operator.attrgetter('serial'))
SortBySerial(rups) ==
    LET serials == SortSet({rups[i].serial : i \in DOMAIN rups})
    IN [k \in DOMAIN serials |->
           rups[CHOOSE i \in DOMAIN rups : rups[i].serial = serials[k]]]

\* split_in_blocks(ruptures, 1, key=grp_id): one block per group that has
\* ruptures, the groups in ascending order
split_in_blocks(rups) ==
    LET grps == SortSet({rups[i].grp_id : i \in DOMAIN rups})
    IN [k \in DOMAIN grps |-> RuptureGetter(rups, grps[k])]

\* from_sources.genargs (event_based.py:292)
genargs(sbg) ==
    LET srcs == Concat([k \in DOMAIN sbg |-> sbg[k].srcs])
        blocks == split_in_blocks(SortBySerial(AllRuptures(srcs)))
    IN [k \in DOMAIN blocks |->
           [ruptures |-> blocks[k], grp_id |-> blocks[k][1].grp_id]]

\* the from_sources of the ucerf calculator: one task per source (branch),
\* which samples the ruptures itself; nothing is stored before the reduction
ucerf_from_sources(sources) ==
    [i \in DOMAIN sources |->
        [ruptures |-> sources[i].eb_ruptures,
         grp_id |-> sources[i].src_group_id]]

\* srcs_by_grp[srcs[0].src_group_id] += srcs (event_based.py:274)
AddSrcs(sbg, grp, srcs) ==
    IF \E k \in DOMAIN sbg : sbg[k].grp = grp
    THEN [k \in DOMAIN sbg |->
             IF sbg[k].grp = grp
             THEN [sbg[k] EXCEPT !.srcs = @ \o srcs] ELSE sbg[k]]
    ELSE Append(sbg, [grp |-> grp, srcs |-> srcs])

(***************************************************************************)
(* save_ruptures (event_based.py:355): the datastore after the call, the   *)
(* events it returns and whether the eids matched.                         *)
(***************************************************************************)
SaveThenCompare(d, rups) ==
    IF Len(rups) > 0
    THEN LET rlzs_by_gsim == rlzs_by_gsim_grp[rups[1].grp_id]
             events == get_events(rups, rlzs_by_gsim)
             eids == Concat([i \in DOMAIN rups |->
                                get_eids(rups[i], num_rlzs(rlzs_by_gsim))])
             saved == extend(extend(d, "ruptures", rups), "events", events)
         IN IF eids = events
            THEN [datastore |-> saved, events |-> events, ok |-> TRUE]
            ELSE [datastore |-> saved, events |-> <<>>, ok |-> FALSE]
    ELSE [datastore |-> d, events |-> <<>>, ok |-> TRUE]

save_ruptures(d, rups) ==
    IF Len(rups) > 0
    THEN LET rlzs_by_gsim == rlzs_by_gsim_grp[rups[1].grp_id]
             events == get_events(rups, rlzs_by_gsim)
             eids == Concat([i \in DOMAIN rups |->
                                get_eids(rups[i], num_rlzs(rlzs_by_gsim))])
             saved == extend(d, "ruptures", rups)
         IN IF eids = events
            THEN [datastore |-> extend(saved, "events", events),
                  events |-> events, ok |-> TRUE]
            ELSE [datastore |-> saved, events |-> <<>>, ok |-> FALSE]
    ELSE [datastore |-> d, events |-> <<>>, ok |-> TRUE]

(***************************************************************************)
(* Probabilities.  A poe is a dyadic rational num / 2^exp, kept normalised *)
(* (num odd, or 0/1 with exp 0); on such values with few bits the float64  *)
(* arithmetic of numpy is exact, so the operators compute what the code    *)
(* computes.                                                               *)
(***************************************************************************)
RECURSIVE Pow2(_)
Pow2(e) == IF e = 0 THEN 1 ELSE 2 * Pow2(e - 1)

RECURSIVE Norm(_, _)
Norm(n, e) ==
    IF n = 0 THEN <<0, 0>>
    ELSE IF e > 0 /\ n % 2 = 0 THEN Norm(n \div 2, e - 1)
    ELSE <<n, e>>

Zero == <<0, 0>>
Half == <<1, 1>>
Quarter == <<1, 2>>

\* 1. - p
OneMinus(p) == Norm(Pow2(p[2]) - p[1], p[2])

\* p * q
Times(p, q) == Norm(p[1] * q[1], p[2] + q[2])

\* array[:] = 1. - (1. - array) * (1. - poes), one level (event_based.py:349)
OverwritePoe(p, poe) == OneMinus(OneMinus(poe))
ComplementOnce(p, poe) == OneMinus(Times(p, OneMinus(poe)))
UpdatePoe(p, poe) == OneMinus(Times(OneMinus(p), OneMinus(poe)))

\* acc[r].setdefault(sid, 0): a curve of L zeros when the site is missing
setdefault(pmap, sid) ==
    IF sid \in DOMAIN pmap THEN pmap
    ELSE Put(pmap, sid, [l \in 1..L |-> Zero])

\* the update applied to every level of the curve, not to the slice of the IMT
FoldAllLevels(a, hc) ==
    LET pmap == setdefault(a[hc.r], hc.sid)
        array == pmap[hc.sid]
        poe == hc.poes[CHOOSE l \in imtls(hc.imt) : TRUE]
        new == [l \in 1..L |-> UpdatePoe(array[l], poe)]
    IN [a EXCEPT ![hc.r] = Put(pmap, hc.sid, new)]

\* one iteration of the loop of event_based.py:346-349
FoldCurve(a, hc) ==
    LET pmap == setdefault(a[hc.r], hc.sid)
        array == pmap[hc.sid]
        new == [l \in 1..L |->
                   IF l \in imtls(hc.imt)
                   THEN UpdatePoe(array[l], hc.poes[l]) ELSE array[l]]
    IN [a EXCEPT ![hc.r] = Put(pmap, hc.sid, new)]

\* the loop of event_based.py:346-349 over result.get('hcurves', {}).items()
RECURSIVE FoldCurves(_, _)
FoldCurves(a, hcurves) ==
    IF hcurves = <<>> THEN a
    ELSE FoldCurves(FoldCurve(a, Head(hcurves)), Tail(hcurves))

(***************************************************************************)
(* agg_dicts (event_based.py:310).                                         *)
(***************************************************************************)
\* the cached property eid2idx (event_based.py:457): dict(zip(eids, arange))
MakeEid2idx(eids) ==
    [e \in Range(eids) |->
        (CHOOSE i \in DOMAIN eids :
            eids[i] = e /\ \A j \in DOMAIN eids : eids[j] = e => j <= i) - 1]

\* line 319-323: the events returned by save_ruptures get self.idx, idx + 1 ...
UcerfEid2idx(events, i0) ==
    [e \in Range(events) |->
        i0 - 1 + (CHOOSE i \in DOMAIN events :
            events[i] = e /\ \A j \in DOMAIN events : events[j] = e => j <= i)]

\* replace_eid (event_based.py:50): numpy.unique gives the sorted distinct eids
\* and the position of each row's eid among them
KeepEids(data, e2i) == data

replace_eid(data, e2i) ==
    LET uniq == SortSet({data[i].eid : i \in DOMAIN data})
        inv == [i \in DOMAIN data |->
                   CHOOSE k \in DOMAIN uniq : uniq[k] = data[i].eid]
        mapped == [k \in DOMAIN uniq |-> e2i[uniq[k]]]
    IN [i \in DOMAIN data |-> [data[i] EXCEPT !.eid = mapped[inv[i]]]]

\* the loop of lines 337-339: every range is translated by the offset o
AppendTo(ind, key, value) == Put(ind, key, Append(Get(ind, key, <<>>), value))

RECURSIVE RecordEarly(_, _, _)
RecordEarly(ind, triples, o) ==
    IF triples = <<>> THEN ind
    ELSE LET t == Head(triples)
         IN RecordEarly(AppendTo(AppendTo(ind, <<t[1], 0>>, t[2] + o),
                                 <<t[1], 1>>, t[3] + o),
                        Tail(triples), o + (t[3] - t[2]))

RECURSIVE RecordUnshifted(_, _, _)
RecordUnshifted(ind, triples, o) ==
    IF triples = <<>> THEN ind
    ELSE LET t == Head(triples)
         IN RecordUnshifted(AppendTo(AppendTo(ind, <<t[1], 0>>, t[2]),
                                     <<t[1], 1>>, t[3]),
                            Tail(triples), o)

RECURSIVE RecordIndices(_, _, _)
RecordIndices(ind, triples, o) ==
    IF triples = <<>> THEN ind
    ELSE LET t == Head(triples)
         IN RecordIndices(AppendTo(AppendTo(ind, <<t[1], 0>>, t[2] + o),
                                   <<t[1], 1>>, t[3] + o),
                          Tail(triples), o)

\* line 340: self.offset += len(data)
AdvanceByRanges(off, result) == off + Len(result.indices)
AdvanceOffset(off, result) == off + Len(result.gmfdata)

\* the size in bytes of a row of gmf_data/data (gmv_dt)
RowBytes == 2 + 4 + 8 + 4 * oqparam.num_imts

\* update_nbytes (event_based.py:124)
\* line 103-119: the estimated size in bytes of the GMFs of some ruptures
max_gmf_size(ebruptures, num_imts) ==
    LET nbytes == 2 + 4 + 8 + 4 * num_imts
        n == SumSeq([k \in DOMAIN ebruptures |->
                        Cardinality(ebruptures[k].sids) * ebruptures[k].n_occ])
    IN n * nbytes

\* line 228-241: gmf_size, the sum of max_gmf_size over the sources; the
\* attribute of events is set when it is not zero
StoreGmfSize(at, sbg, num_imts) ==
    LET srcs == Concat([k \in DOMAIN sbg |-> sbg[k].srcs])
        gmf_size == SumSeq([k \in DOMAIN srcs |->
                               max_gmf_size(srcs[k].eb_ruptures, num_imts)])
    IN IF gmf_size # 0
       THEN Put(at, "events", [max_gmf_size |-> gmf_size])
       ELSE at

update_nbytes(at, key, n) ==
    Put(at, key, Get(at, key, 0) + n)

\* line 341: if self.offset >= TWO32
StrictlyMore(off) == off > TWO32
TooManyRows(off) == off >= TWO32

\* line 328-343.  st holds the fields agg_dicts reads and writes.
SaveGmfs(st, result, e2i) ==
    IF ~result.has_gmdata THEN st
    ELSE IF \E i \in DOMAIN result.gmfdata :
               result.gmfdata[i].eid \notin DOMAIN e2i
    THEN [st EXCEPT !.gmdata = @ + result.gmdata, !.exc = "KeyError"]
    ELSE LET data == replace_eid(result.gmfdata, e2i)
             stored == extend(st.datastore, "gmf_data/data", data)
             nbytes == update_nbytes(st.attrs, "gmf_data/data",
                                     Len(data) * RowBytes)
             ind == RecordIndices(st.indices, result.indices, st.offset)
             off == AdvanceOffset(st.offset, result)
         IN [st EXCEPT !.gmdata = @ + result.gmdata,
                       !.datastore = stored,
                       !.attrs = nbytes,
                       !.indices = ind,
                       !.offset = off,
                       !.exc = IF TooManyRows(off) THEN "RuntimeError: rows"
                                                  ELSE None]

\* acc as a defaultdict: a probability map is created for an unknown r
AggCurvesCreating(st, result) ==
    LET RECURSIVE FoldCreating(_, _)
        FoldCreating(a, hcurves) ==
            IF hcurves = <<>> THEN a
            ELSE LET r == Head(hcurves).r
                     b == IF r \in DOMAIN a THEN a
                          ELSE Put(a, r, ProbabilityMap)
                 IN FoldCreating(FoldCurve(b, Head(hcurves)), Tail(hcurves))
    IN IF st.exc # None THEN st
       ELSE [st EXCEPT !.acc = FoldCreating(st.acc, result.hcurves)]

\* line 344-349; acc[r] raises KeyError for an unknown realization, after the
\* contributions that precede it in the result were folded
AggCurves(st, result) ==
    IF st.exc # None THEN st
    ELSE LET unknown == {i \in DOMAIN result.hcurves :
                            result.hcurves[i].r \notin DOMAIN st.acc}
         IN IF unknown # {}
            THEN LET first == CHOOSE i \in unknown : \A j \in unknown : i <= j
                 IN [st EXCEPT
                       !.acc = FoldCurves(st.acc,
                                  SubSeq(result.hcurves, 1, first - 1)),
                       !.exc = "KeyError"]
            ELSE [st EXCEPT !.acc = FoldCurves(st.acc, result.hcurves)]

\* line 320-323: self.idx += 1 for every eid of the events
AdvanceIdxOnce(i, events) == IF events = <<>> THEN i ELSE i + 1
AdvanceIdx(i, events) == i + Len(events)

\* line 315-325
agg_dicts(st, result) ==
    IF ucerf
    THEN LET saved == save_ruptures(st.datastore, result.ruptures)
             events == saved.events
         IN IF ~saved.ok
            THEN [st EXCEPT !.datastore = saved.datastore,
                            !.exc = "AssertionError"]
            ELSE AggCurves(
                   SaveGmfs([st EXCEPT !.datastore = saved.datastore,
                                       !.idx = AdvanceIdx(@, events)],
                            result, UcerfEid2idx(events, st.idx)),
                   result)
    ELSE IF st.eid2idx = <<>> /\ "events" \notin DOMAIN st.datastore
    THEN [st EXCEPT !.exc = "KeyError"]
    ELSE LET cache == IF st.eid2idx = <<>>
                      THEN <<MakeEid2idx(st.datastore["events"])>>
                      ELSE st.eid2idx
         IN AggCurves(SaveGmfs([st EXCEPT !.eid2idx = cache],
                               result, cache[1]),
                      result)

(***************************************************************************)
(* execute, lines 407-417.                                                 *)
(***************************************************************************)
\* the exception is recorded and the run goes on
LogAndContinue(exc) ==
    /\ error' = exc
    /\ UNCHANGED pc

Fail(exc) ==
    /\ pc' = "failed"
    /\ error' = exc

\* the Starmap is built on iterargs and reduce gets zerodict() (line 419)
StartReduce(args) ==
    /\ iterargs' = args
    /\ idx' = 0
    /\ acc' = zerodict
    /\ pc' = "submit"
    /\ UNCHANGED error

\* line 407-410: from ruptures
ExecuteFromRuptures ==
    /\ pc = "execute"
    /\ oqparam.hazard_calculation_id # 0
    /\ IF ~oqparam.ground_motion_fields
       THEN Fail("AssertionError") /\ UNCHANGED <<iterargs, idx, acc>>
       ELSE StartReduce(from_ruptures(datastore))
    /\ UNCHANGED <<config, builder, engine_vars, sources_vars, datastore, attrs, tasks, results,
                   folded, offset, indices, eid2idx, gmdata, checks, retval>>

\* line 412, from_sources up to line 272: the build_ruptures tasks are sent
ExecuteFromSources ==
    /\ pc = "execute"
    /\ oqparam.hazard_calculation_id = 0
    /\ ~ucerf
    /\ smap' = DOMAIN csm
    /\ pc' = "smap"
    /\ UNCHANGED <<config, builder, engine_vars, srcs_by_grp, store_queue, datastore, attrs,
                   starmap_vars, reducer_vars, checks, error, retval>>

\* line 412 in a ucerf calculation
ExecuteUcerf ==
    /\ pc = "execute"
    /\ oqparam.hazard_calculation_id = 0
    /\ ucerf
    /\ IF oqparam.ground_motion_fields
       THEN StartReduce(ucerf_from_sources(csm))
       ELSE /\ iterargs' = ucerf_from_sources(csm)
            /\ pc' = "drain"
            /\ UNCHANGED <<idx, acc, error>>
    /\ UNCHANGED <<config, builder, engine_vars, sources_vars, datastore, attrs, tasks, results,
                   folded, offset, indices, eid2idx, gmdata, checks, retval>>

\* line 273-274: one build_ruptures task returns its sources
SmapNext ==
    /\ pc = "smap"
    /\ \E i \in smap :
          /\ smap' = smap \ {i}
          /\ srcs_by_grp' = AddSrcs(srcs_by_grp, csm[i].src_group_id, <<csm[i]>>)
    /\ UNCHANGED <<config, builder, engine_vars, pc, store_queue, datastore, attrs, starmap_vars,
                   reducer_vars, checks, error, retval>>

\* line 276-282: all the tasks returned, _store_ruptures starts its loop
StoreRuptures ==
    /\ pc = "smap"
    /\ smap = {}
    /\ store_queue' = Concat([k \in DOMAIN srcs_by_grp |-> srcs_by_grp[k].srcs])
    /\ pc' = "store"
    /\ UNCHANGED <<config, builder, engine_vars, smap, srcs_by_grp, datastore, attrs, starmap_vars,
                   reducer_vars, checks, error, retval>>

\* line 232: self.save_ruptures(src.eb_ruptures) for the next source
SaveRuptures ==
    /\ pc = "store"
    /\ store_queue # <<>>
    /\ LET res == save_ruptures(datastore, Head(store_queue).eb_ruptures)
       IN /\ datastore' = res.datastore
          /\ IF res.ok
             THEN /\ store_queue' = Tail(store_queue)
                  /\ UNCHANGED <<pc, error>>
             ELSE Fail("AssertionError") /\ UNCHANGED store_queue
    /\ UNCHANGED <<config, builder, engine_vars, smap, srcs_by_grp, attrs, starmap_vars,
                   reducer_vars, checks, retval>>

\* line 239-241, 284-308 and 413-417: the loop of _store_ruptures is over and
\* the size estimate is stored, the events are reordered, genargs is created
ReorderEvents ==
    /\ pc = "store"
    /\ store_queue = <<>>
    /\ attrs' = StoreGmfSize(attrs, srcs_by_grp, oqparam.num_imts)
    /\ IF "events" \notin DOMAIN datastore
       THEN /\ Fail("KeyError")
            /\ UNCHANGED <<datastore, iterargs, idx, acc>>
       ELSE /\ datastore' = Put(datastore, "events", Sorted(datastore["events"]))
            /\ IF oqparam.ground_motion_fields
               THEN StartReduce(genargs(srcs_by_grp))
               ELSE /\ iterargs' = genargs(srcs_by_grp)
                    /\ pc' = "drain"
                    /\ UNCHANGED <<idx, acc, error>>
    /\ UNCHANGED <<config, builder, engine_vars, sources_vars, tasks, results,
                   folded, offset, indices, eid2idx, gmdata, checks, retval>>

\* line 414-416: the arguments are generated and dropped, {} is returned
Drain ==
    /\ pc = "drain"
    /\ IF iterargs # <<>>
       THEN iterargs' = Tail(iterargs) /\ UNCHANGED <<pc, retval>>
       ELSE pc' = "done" /\ retval' = "{}" /\ UNCHANGED iterargs
    /\ UNCHANGED <<config, builder, engine_vars, sources_vars, datastore, attrs, tasks, results,
                   folded, reducer_vars, checks, error>>

(***************************************************************************)
(* compute_gmfs (event_based.py:139): the result of a task.  The GMF rows  *)
(* and the curve contributions come from GmfGetter.compute_gmfs_curves:    *)
(* per site the rows of some of the events of the task (the others are     *)
(* below the minimum intensity), sorted by site, with the range of rows of *)
(* each site.                                                              *)
(***************************************************************************)
\* the number of rows of each site: none, one row at the first site, one row
\* at every site, a row for every event at every site
Min(a, b) == IF a <= b THEN a ELSE b
HitChoices(n) ==
    {[s \in Sids |-> 0], [s \in Sids |-> IF s = 0 THEN Min(1, n) ELSE 0],
     [s \in Sids |-> Min(1, n)], [s \in Sids |-> n]}

SidSeq == SortSet(Sids)

\* a row is (sid, eid, gmv); the ground motion values of a row are those of
\* the event that generated it, and stand here for that event
GmfRows(events, hits) ==
    Concat([k \in DOMAIN SidSeq |->
               [j \in 1..hits[SidSeq[k]] |->
                   [sid |-> SidSeq[k], eid |-> events[j], gmv |-> events[j]]]])

\* the (sid, start, stop) of each run of rows of one site
RECURSIVE RunIndices(_, _)
RunIndices(data, start) ==
    IF start > Len(data) THEN <<>>
    ELSE LET sid == data[start].sid
             stop == CHOOSE e \in start..Len(data) :
                        /\ \A i \in start..e : data[i].sid = sid
                        /\ (e = Len(data) \/ data[e + 1].sid # sid)
         IN <<<<sid, start - 1, stop>>>> \o RunIndices(data, stop + 1)

MakeResult(task, hits, hcurves) ==
    LET events == get_events(task.ruptures, rlzs_by_gsim_grp[task.grp_id])
        data == GmfRows(events, hits)
    IN [ruptures |-> task.ruptures, has_gmdata |-> TRUE, gmdata |-> Len(data),
        gmfdata |-> data, indices |-> RunIndices(data, 1),
        hcurves |-> hcurves]

NoGmfResult(task, hcurves) ==
    [ruptures |-> task.ruptures, has_gmdata |-> FALSE, gmdata |-> 0,
     gmfdata |-> <<>>, indices |-> <<>>, hcurves |-> hcurves]

Curve(r, sid, imt, poe) ==
    [r |-> r, sid |-> sid, imt |-> imt, poes |-> [l \in imtls(imt) |-> poe]]

\* the curve contributions of the runs that vary the GMF rows
FewCurves == {<<>>, <<Curve(0, 0, "PGA", Half)>>}

GmfResults(task) ==
    LET n == Len(get_events(task.ruptures, rlzs_by_gsim_grp[task.grp_id]))
    IN {NoGmfResult(task, hc) : hc \in FewCurves}
       \cup {MakeResult(task, hits, hc) :
                hits \in HitChoices(n), hc \in FewCurves}

\* the curve contributions of the runs that vary the curves: no key, one key,
\* or both IMTs of one realization and site
ManyCurves ==
    {<<>>}
    \cup {<<Curve(r, sid, IMTs[k], p)>> :
             r \in 0..(R - 1), sid \in Sids, k \in DOMAIN IMTs,
             p \in {Zero, Half, Quarter}}
    \cup {<<Curve(r, sid, IMTs[1], p), Curve(r, sid, IMTs[2], p)>> :
             r \in 0..(R - 1), sid \in Sids, p \in {Zero, Half, Quarter}}

CurveResults(task) ==
    LET n == Len(get_events(task.ruptures, rlzs_by_gsim_grp[task.grp_id]))
    IN {MakeResult(task, [s \in Sids |-> IF s = 0 THEN Min(1, n) ELSE 0], hc) :
           hc \in ManyCurves}

\* the curve contributions of the runs that look at the keys of the
\* accumulator: none, one of a realization of the logic tree, and some that
\* name the index R, which no realization has
KeyCurves ==
    {<<>>, <<Curve(0, 0, "PGA", Half)>>, <<Curve(R, 0, "PGA", Half)>>,
     <<Curve(R - 1, 1, "SA", Quarter), Curve(R, 1, "SA", Quarter)>>}

KeyResults(task) ==
    LET n == Len(get_events(task.ruptures, rlzs_by_gsim_grp[task.grp_id]))
    IN {MakeResult(task, [s \in Sids |-> IF s = 0 THEN Min(1, n) ELSE 0], hc) :
           hc \in KeyCurves}

(***************************************************************************)
(* The Starmap: submission, the tasks, the reduction (line 419-421).       *)
(***************************************************************************)
\* submit_all: the next argument tuple is generated and submitted
Submit ==
    /\ pc = "submit"
    /\ IF iterargs # <<>>
       THEN /\ tasks' = Append(tasks, Head(iterargs))
            /\ iterargs' = Tail(iterargs)
            /\ UNCHANGED pc
       ELSE pc' = "reduce" /\ UNCHANGED <<tasks, iterargs>>
    /\ UNCHANGED <<config, builder, engine_vars, sources_vars, datastore, attrs, results, folded,
                   reducer_vars, checks, error, retval>>

\* a worker finishes compute_gmfs for a submitted task, with one of the
\* results in choices
\* a worker that counts the rows it produced in the offset of the calculator
ComputeCounting(i, choices) ==
    /\ pc \in {"submit", "reduce"}
    /\ \E res \in choices :
          /\ results' = Put(results, i, res)
          /\ offset' = offset + Len(res.gmfdata)
    /\ UNCHANGED <<config, builder, engine_vars, pc, sources_vars, datastore, attrs, iterargs,
                   tasks, folded, acc, indices, idx, eid2idx, gmdata, checks,
                   error, retval>>

\* line 139-157: compute_gmfs has no access to the calculator, it returns res
Compute(i, choices) ==
    /\ pc \in {"submit", "reduce"}
    /\ \E res \in choices : results' = Put(results, i, res)
    /\ UNCHANGED <<config, builder, engine_vars, pc, sources_vars, datastore, attrs, iterargs,
                   tasks, folded, reducer_vars, checks, error, retval>>

ComputeGmfs ==
    \E i \in DOMAIN tasks \ DOMAIN results : Compute(i, GmfResults(tasks[i]))

ComputeCurves ==
    \E i \in DOMAIN tasks \ DOMAIN results :
       Compute(i, CurveResults(tasks[i]))

ComputeKeys ==
    \E i \in DOMAIN tasks \ DOMAIN results : Compute(i, KeyResults(tasks[i]))

ReducerState ==
    [datastore |-> datastore, attrs |-> attrs, indices |-> indices,
     offset |-> offset, idx |-> idx, acc |-> acc, eid2idx |-> eid2idx,
     gmdata |-> gmdata, exc |-> None]

\* the reduce hands one finished result to agg_dicts
AggDicts ==
    /\ pc = "reduce"
    /\ \E i \in DOMAIN results \ folded :
          LET st == agg_dicts(ReducerState, results[i])
          IN /\ datastore' = st.datastore
             /\ attrs' = st.attrs
             /\ indices' = st.indices
             /\ offset' = st.offset
             /\ idx' = st.idx
             /\ acc' = st.acc
             /\ eid2idx' = st.eid2idx
             /\ gmdata' = st.gmdata
             /\ folded' = folded \cup {i}
             /\ IF st.exc # None
                THEN Fail(st.exc)
                ELSE UNCHANGED <<pc, error>>
    /\ UNCHANGED <<config, builder, engine_vars, sources_vars, iterargs, tasks, results, checks,
                   retval>>

(***************************************************************************)
(* check_overflow (event_based.py:373): the name of the first count above  *)
(* its limit, None when there is none.                                     *)
(***************************************************************************)
AtLeastLimit(d, nsites, nimts) ==
    LET events == IF "events" \in DOMAIN d THEN Len(d["events"]) ELSE 0
    IN IF nsites >= MaxSites THEN "sites"
       ELSE IF events >= TWO32 THEN "events"
       ELSE IF nimts >= MaxImts THEN "imts"
       ELSE None

SitesOnly(d, nsites, nimts) == IF nsites > MaxSites THEN "sites" ELSE None

check_overflow(d, nsites, nimts) ==
    LET events == IF "events" \in DOMAIN d THEN Len(d["events"]) ELSE 0
    IN IF nsites > MaxSites THEN "sites"
       ELSE IF events > TWO32 THEN "events"
       ELSE IF nimts > MaxImts THEN "imts"
       ELSE None

\* a check made while results are still to be folded
CheckBeforeTheEnd ==
    /\ pc = "reduce"
    /\ checks' = checks + 1
    /\ IF check_overflow(datastore, sitecol.n, oqparam.num_imts) # None
       THEN Fail("ValueError")
       ELSE pc' = "save" /\ UNCHANGED error
    /\ UNCHANGED <<config, builder, engine_vars, sources_vars, datastore, attrs, starmap_vars,
                   reducer_vars, retval>>

\* line 422: all the results are folded, the reduce returned
CheckOverflow ==
    /\ pc = "reduce"
    /\ folded = DOMAIN tasks
    /\ checks' = checks + 1
    /\ IF check_overflow(datastore, sitecol.n, oqparam.num_imts) # None
       THEN Fail("ValueError")
       ELSE pc' = "save" /\ UNCHANGED error
    /\ UNCHANGED <<config, builder, engine_vars, sources_vars, datastore, attrs, starmap_vars,
                   reducer_vars, retval>>

(***************************************************************************)
(* execute, line 423-448.                                                  *)
(***************************************************************************)
Max(S) == CHOOSE x \in S : \A y \in S : y <= x

\* the sids of sitecol.complete that the model names
CompleteSids == {sid \in Sids : sid < sitecol.complete}

\* line 435-440
IndicesDset ==
    [sid \in CompleteSids |->
        <<Get(indices, <<sid, 0>>, <<>>), Get(indices, <<sid, 1>>, <<>>)>>]

\* the sum of the stops, without the starts
StopsBySid ==
    [sid \in CompleteSids |-> SumSeq(Get(indices, <<sid, 1>>, <<>>))]

\* line 436-440: num_evs[sid] = (stop - start).sum()
EventsBySid ==
    [sid \in CompleteSids |->
        SumSeq(Get(indices, <<sid, 1>>, <<>>))
            - SumSeq(Get(indices, <<sid, 0>>, <<>>))]

\* line 444-445: the condition of the elif
GmfRequested == oqparam.ground_motion_fields
NoGmfsIsError ==
    oqparam.ground_motion_fields /\ oqparam.calculation_mode # "ucerf_hazard"

SaveIndices ==
    /\ pc = "save"
    /\ IF indices # EmptyDict
       THEN /\ datastore' =
                 Put(Put(Put(datastore, "gmf_data/imts", IMTs),
                         "gmf_data/indices", IndicesDset),
                     "gmf_data/events_by_sid", EventsBySid)
            /\ attrs' =
                 Put(attrs, "gmf_data",
                     [avg_events_by_sid |->
                          <<SumSeq([k \in DOMAIN SidSeq |->
                                       Get(EventsBySid, SidSeq[k], 0)]),
                            sitecol.complete>>,
                      max_events_by_sid |->
                          Max({EventsBySid[sid] : sid \in CompleteSids}
                              \cup {0})])
            /\ pc' = "done"
            /\ retval' = "acc"
            /\ UNCHANGED error
       ELSE /\ IF NoGmfsIsError
               THEN Fail("RuntimeError: no GMFs") /\ UNCHANGED retval
               ELSE pc' = "done" /\ retval' = "acc" /\ UNCHANGED error
            /\ UNCHANGED <<datastore, attrs>>
    /\ UNCHANGED <<config, builder, engine_vars, sources_vars, starmap_vars, reducer_vars, checks>>

Next ==
    \/ ExecuteFromRuptures
    \/ ExecuteFromSources
    \/ ExecuteUcerf
    \/ SmapNext
    \/ StoreRuptures
    \/ SaveRuptures
    \/ ReorderEvents
    \/ Drain
    \/ Submit
    \/ ComputeGmfs
    \/ AggDicts
    \/ CheckOverflow
    \/ SaveIndices

Spec == Init /\ [][Next]_vars

(***************************************************************************)
(* The runs of execute that look at the keys of the accumulator: all the   *)
(* branches of execute, every task with the row of one event and one of    *)
(* KeyCurves.                                                              *)
(***************************************************************************)
NextKeys ==
    \/ ExecuteFromRuptures
    \/ ExecuteFromSources
    \/ ExecuteUcerf
    \/ SmapNext
    \/ StoreRuptures
    \/ SaveRuptures
    \/ ReorderEvents
    \/ Drain
    \/ Submit
    \/ ComputeKeys
    \/ AggDicts
    \/ CheckOverflow
    \/ SaveIndices

SpecKeys == InitWith(ModeChoices, {<<2, 3, 2>>}, CsmChoices) /\ [][NextKeys]_vars

(***************************************************************************)
(* The reduction of curve contributions: MaxSources tasks, each with one   *)
(* GMF row and any of ManyCurves, from stored ruptures or in a ucerf run.  *)
(***************************************************************************)
InitCurves ==
    InitWith({m \in ModeChoices :
                 /\ m.ground_motion_fields
                 /\ m.calculation_mode = "ucerf_hazard"
                       <=> m.hazard_calculation_id = 0},
             {<<2, 3, 2>>},
             {MakeCsm(MaxSources, [i \in 1..MaxSources |-> i % 2],
                      [i \in 1..MaxSources |-> 1])})

NextCurves ==
    \/ ExecuteFromRuptures
    \/ ExecuteUcerf
    \/ Submit
    \/ ComputeCurves
    \/ AggDicts
    \/ CheckOverflow
    \/ SaveIndices

SpecCurves == InitCurves /\ [][NextCurves]_vars

(***************************************************************************)
(* check_overflow on its own: the reduction of a run without tasks has     *)
(* returned; the counts of sites, stored events and IMTs are drawn around  *)
(* their limits, the events dataset may be missing.                        *)
(***************************************************************************)
CountsAround(limit) == {1, limit - 1, limit, limit + 1, limit + 2}

InitOverflow ==
    /\ \E m \in {"event_based", "ucerf_hazard"},
          ns \in CountsAround(MaxSites), ni \in CountsAround(MaxImts) :
          /\ oqparam = [calculation_mode |-> m, ground_motion_fields |-> TRUE,
                        hazard_calculation_id |-> 0, num_imts |-> ni]
          /\ sitecol = [n |-> ns, complete |-> ns]
    /\ csm = <<>>
    /\ pc = "reduce"
    /\ smap = {}
    /\ srcs_by_grp = <<>>
    /\ store_queue = <<>>
    /\ \E ne \in 0..(TWO32 + 2) :
          datastore \in {EmptyDict, [k \in {"events"} |-> [e \in 1..ne |-> e - 1]]}
    /\ attrs = EmptyDict
    /\ iterargs = <<>>
    /\ tasks = <<>>
    /\ results = EmptyDict
    /\ folded = {}
    /\ acc = zerodict
    /\ offset = 0
    /\ indices = EmptyDict
    /\ idx = 0
    /\ eid2idx = <<>>
    /\ gmdata = 0
    /\ checks = 0
    /\ error = None
    /\ retval = None
    /\ builder = NoBuilder
    /\ NoEngine

NextOverflow ==
    \/ CheckOverflow
    \/ SaveIndices

SpecOverflow == InitOverflow /\ [][NextOverflow]_vars

(***************************************************************************)
(* The storing of the ruptures on its own: a from-sources run that only    *)
(* stores ruptures and events (ground_motion_fields false), with sources   *)
(* of up to MaxRups ruptures each, n_occ 1 or MaxOcc.  At most one rupture *)
(* of the model, the first or the last sampled, has events whose eids      *)
(* disagree with get_eids.                                                 *)
(***************************************************************************)
MaxRups == 2

SaveCsm(n, counts, occ, bad) ==
    [i \in 1..n |->
        [src_group_id |-> i % 2,
         eb_ruptures |->
            [j \in 1..counts[i] |->
                LET serial == SumSeq([k \in 1..(i - 1) |-> counts[k]]) + j - 1
                IN [serial |-> serial, grp_id |-> i % 2,
                    n_occ |-> occ[serial + 1],
                    skew |-> IF serial = bad THEN 1 ELSE 0, sids |-> Sids]]]]

SaveCsms ==
    UNION {UNION {LET t == SumSeq(counts)
                  IN {SaveCsm(n, counts, occ, bad) :
                         occ \in [1..t -> {1, MaxOcc}], bad \in {-1, 0, t - 1}} :
                  counts \in [1..n -> 0..MaxRups]} :
           n \in 1..MaxSources}

InitSave ==
    InitWith({m \in ModeChoices :
                 /\ ~m.ground_motion_fields
                 /\ m.calculation_mode = "event_based"
                 /\ m.hazard_calculation_id = 0},
             {<<2, 3, 2>>}, SaveCsms)

NextSave ==
    \/ ExecuteFromSources
    \/ SmapNext
    \/ StoreRuptures
    \/ SaveRuptures
    \/ ReorderEvents
    \/ Drain

SpecSave == InitSave /\ [][NextSave]_vars

(***************************************************************************)
(* build_ruptures (event_based.py:74) on its own: one call on a block of   *)
(* up to MaxBlock sources of one group, for each of which sampling gives   *)
(* 0..MaxRups ruptures (all with n_occ 1, or all with n_occ MaxOcc), with  *)
(* ruptures_per_block in 1..MaxRups + 1.  The generator is suspended at    *)
(* each yield and resumed when the next batch is asked for.                *)
(***************************************************************************)
MaxBlock == 3

Block(n, counts, occ) ==
    [i \in 1..n |->
        [src_group_id |-> 0,
         eb_ruptures |->
            [j \in 1..counts[i] |->
                [serial |-> SumSeq([k \in 1..(i - 1) |-> counts[k]]) + j - 1,
                 grp_id |-> 0, n_occ |-> occ, skew |-> 0, sids |-> Sids]]]]

Blocks ==
    UNION {{Block(n, counts, occ) :
               counts \in [1..n -> 0..MaxRups], occ \in {1, MaxOcc}} :
           n \in 1..MaxBlock}

InitBuild ==
    /\ oqparam = [calculation_mode |-> "event_based",
                  ground_motion_fields |-> TRUE,
                  hazard_calculation_id |-> 0, num_imts |-> 2]
    /\ sitecol = [n |-> 2, complete |-> 3]
    /\ csm \in Blocks
    /\ pc = "smap"
    /\ smap = {}
    /\ srcs_by_grp = <<>>
    /\ store_queue = <<>>
    /\ datastore = EmptyDict
    /\ attrs = EmptyDict
    /\ iterargs = <<>>
    /\ tasks = <<>>
    /\ results = EmptyDict
    /\ folded = {}
    /\ acc = EmptyDict
    /\ offset = 0
    /\ indices = EmptyDict
    /\ idx = -1
    /\ eid2idx = <<>>
    /\ gmdata = 0
    /\ checks = 0
    /\ error = None
    /\ retval = None
    /\ \E rpb \in 1..(MaxRups + 1) :
          builder = [NoBuilder EXCEPT !.srcs = csm,
                                      !.ruptures_per_block = rpb,
                                      !.pc = "for"]
    /\ NoEngine

run_vars ==
    <<oqparam, sitecol, csm, pc, smap, srcs_by_grp, store_queue, datastore,
      attrs, iterargs, tasks, results, folded, acc, offset, indices, idx,
      eid2idx, gmdata, checks, error, retval>>

\* line 87: if n > param['ruptures_per_block']
AtBudget(n, ruptures_per_block) == n >= ruptures_per_block
OverBudget(n, ruptures_per_block) == n > ruptures_per_block

\* line 82-88: the next source is sampled, appended and counted; the open
\* batch is yielded when the count is over the budget
BuildNext ==
    /\ builder.pc = "for"
    /\ builder.i < Len(builder.srcs)
    /\ LET src == builder.srcs[builder.i + 1]
           batch == Append(builder.acc, src)
           count == builder.n + Len(src.eb_ruptures)
       IN builder' =
             IF OverBudget(count, builder.ruptures_per_block)
             THEN [builder EXCEPT !.i = @ + 1, !.acc = batch, !.n = count,
                                  !.yielded = Append(@, batch),
                                  !.held = Append(@, builder.ref),
                                  !.pc = "yield"]
             ELSE [builder EXCEPT !.i = @ + 1, !.acc = batch, !.n = count]
    /\ UNCHANGED <<run_vars, engine_vars>>

\* line 89-90: n = 0 and acc.clear(), which empties the list that was yielded
Cleared(b) == [b EXCEPT !.n = 0, !.acc = <<>>]

\* line 89-90: the generator is resumed after the yield
BuildResume ==
    /\ builder.pc = "yield"
    /\ builder' = [Cleared(builder) EXCEPT !.pc = "for"]
    /\ UNCHANGED <<run_vars, engine_vars>>

\* line 91: if acc
HasRuptures(b) == b.n > 0
HasOpenBatch(b) == b.acc # <<>>

\* the loop is over and the generator returns, whatever is left in acc
BuildEndDropping ==
    /\ builder.pc = "for"
    /\ builder.i = Len(builder.srcs)
    /\ builder' = [builder EXCEPT !.pc = "return"]
    /\ UNCHANGED <<run_vars, engine_vars>>

\* line 91-92: the loop is over, what is left in acc is yielded
BuildEnd ==
    /\ builder.pc = "for"
    /\ builder.i = Len(builder.srcs)
    /\ builder' =
          IF HasOpenBatch(builder)
          THEN [builder EXCEPT !.yielded = Append(@, builder.acc),
                               !.held = Append(@, builder.ref),
                               !.pc = "return"]
          ELSE [builder EXCEPT !.pc = "return"]
    /\ UNCHANGED <<run_vars, engine_vars>>

NextBuild ==
    \/ BuildNext
    \/ BuildResume
    \/ BuildEnd

SpecBuild == InitBuild /\ [][NextBuild]_vars

(***************************************************************************)
(* post_execute (event_based.py:463) on its own.  execute has returned     *)
(* result: a dictionary with 0..R + 1 probability maps, while the logic    *)
(* tree has R realizations (weights).  oqparam has in addition             *)
(* hazard_curves_from_gmfs, the names of hazard_stats() and poes;          *)
(* compare_with_classical is not set.  A dataset of curves or maps is      *)
(* represented by its shape.                                               *)
(***************************************************************************)
StatChoices == {<<>>, <<"mean">>, <<"mean", "max">>}

PoesChoices == {<<>>, <<Half>>}

ResultChoices ==
    {[r \in 0..(k - 1) |-> [sid \in {0} |-> [l \in 1..L |-> Half]]] :
        k \in 0..(R + 1)}

InitPost ==
    /\ \E m \in {"event_based", "ucerf_hazard"}, hc \in BOOLEAN,
          st \in StatChoices, ps \in PoesChoices :
          oqparam = [calculation_mode |-> m, ground_motion_fields |-> TRUE,
                     hazard_calculation_id |-> 0, num_imts |-> 2,
                     hazard_curves_from_gmfs |-> hc, hazard_stats |-> st,
                     poes |-> ps]
    /\ sitecol = [n |-> 2, complete |-> 3]
    /\ csm = <<>>
    /\ pc = "done"
    /\ smap = {}
    /\ srcs_by_grp = <<>>
    /\ store_queue = <<>>
    /\ datastore \in
          {[k \in {"events"} |-> <<0, 1>>],
           [k \in {"events", "gmf_data/data"} |->
               IF k = "events" THEN <<0, 1>>
               ELSE <<[sid |-> 0, eid |-> 0, gmv |-> 0]>>]}
    /\ attrs = EmptyDict
    /\ iterargs = <<>>
    /\ tasks = <<>>
    /\ results = EmptyDict
    /\ folded = {}
    /\ acc \in ResultChoices
    /\ offset = Len(Get(datastore, "gmf_data/data", <<>>))
    /\ indices = EmptyDict
    /\ idx = 0
    /\ eid2idx = <<>>
    /\ gmdata = 0
    /\ checks = 1
    /\ error = None
    /\ retval = "acc"
    /\ builder = NoBuilder
    /\ NoEngine

\* the datasets 'hcurves/' + statname and 'hmaps/' + statname
HcurvesKey(statname) ==
    IF statname = "mean" THEN "hcurves/mean" ELSE "hcurves/max"

HmapsKey(statname) == IF statname = "mean" THEN "hmaps/mean" ELSE "hmaps/max"

\* line 482: if len(weights) != len(pmaps)
FewerPmaps(nweights, npmaps) == nweights > npmaps
PmapsMismatch(nweights, npmaps) == nweights # npmaps

\* line 487-503: the curves, and with poes the maps, of every statistic
RECURSIVE SaveStats(_, _)
SaveStats(d, hstats) ==
    IF hstats = <<>> THEN d
    ELSE LET N == sitecol.complete
             hcurves == Put(d, HcurvesKey(Head(hstats)), <<N, L>>)
             hmaps ==
                IF oqparam.poes # <<>>
                THEN Put(hcurves, HmapsKey(Head(hstats)),
                         <<N, Len(oqparam.poes) * oqparam.num_imts>>)
                ELSE hcurves
         IN SaveStats(hmaps, Tail(hstats))

\* line 507-508 and save_gmf_bytes (line 450)
save_gmf_bytes(at, d) ==
    IF "gmf_data/data" \in DOMAIN d
    THEN Put(at, "gmf_data/data", Len(d["gmf_data/data"]) * RowBytes)
    ELSE at

\* post_execute(result), with result the dictionary execute returned
PostExecute ==
    /\ pc = "done"
    /\ LET result == IF retval = "acc" THEN acc ELSE EmptyDict
           weights == R
           pmaps == Cardinality(DOMAIN result)
       IN IF /\ result # EmptyDict
             /\ oqparam.hazard_curves_from_gmfs
             /\ oqparam.hazard_stats # <<>>
             /\ PmapsMismatch(weights, pmaps)
          THEN /\ Fail("AssertionError")
               /\ UNCHANGED <<datastore, attrs>>
          ELSE /\ datastore' =
                     IF result # EmptyDict /\ oqparam.hazard_curves_from_gmfs
                     THEN SaveStats(datastore, oqparam.hazard_stats)
                     ELSE datastore
               /\ attrs' = save_gmf_bytes(attrs, datastore)
               /\ pc' = "post_executed"
               /\ UNCHANGED error
    /\ UNCHANGED <<config, builder, engine_vars, sources_vars, starmap_vars, reducer_vars,
                   checks, retval>>

NextPost == PostExecute

SpecPost == InitPost /\ [][NextPost]_vars

(***************************************************************************)
(* The runs from sources that compare the rows of gmf_data/data with the   *)
(* size estimated by _store_ruptures: every task gives, for each site, the *)
(* rows of any number of its events.                                       *)
(***************************************************************************)
SizedResults(task) ==
    LET n == Len(get_events(task.ruptures, rlzs_by_gsim_grp[task.grp_id]))
    IN {MakeResult(task, hits, <<>>) : hits \in [Sids -> 0..n]}

ComputeSized ==
    \E i \in DOMAIN tasks \ DOMAIN results : Compute(i, SizedResults(tasks[i]))

InitSize ==
    InitWith({m \in ModeChoices :
                 /\ m.ground_motion_fields
                 /\ m.calculation_mode = "event_based"
                 /\ m.hazard_calculation_id = 0},
             {<<2, 3, 2>>}, CsmChoices)

NextSize ==
    \/ ExecuteFromSources
    \/ SmapNext
    \/ StoreRuptures
    \/ SaveRuptures
    \/ ReorderEvents
    \/ Submit
    \/ ComputeSized
    \/ AggDicts
    \/ CheckOverflow
    \/ SaveIndices

SpecSize == InitSize /\ [][NextSize]_vars

(***************************************************************************)
(* RiskCalculator.task_arg_gen (openquake/engine/calculators/risk/base.py) *)
(* step by step, for every mapping of at most MaxTaxonomies taxonomies to  *)
(* at most MaxAssets assets and every block_size up to MaxBlockSize.       *)
(***************************************************************************)
MaxTaxonomies == 2
MaxAssets == 4
MaxBlockSize == 3

\* no run of the event based calculator
NoRun ==
    /\ oqparam = [calculation_mode |-> "event_based",
                  ground_motion_fields |-> TRUE,
                  hazard_calculation_id |-> 0, num_imts |-> 2]
    /\ sitecol = [n |-> 2, complete |-> 3]
    /\ csm = <<>>
    /\ pc = "idle"
    /\ smap = {}
    /\ srcs_by_grp = <<>>
    /\ store_queue = <<>>
    /\ datastore = EmptyDict
    /\ attrs = EmptyDict
    /\ iterargs = <<>>
    /\ tasks = <<>>
    /\ results = EmptyDict
    /\ folded = {}
    /\ acc = EmptyDict
    /\ offset = 0
    /\ indices = EmptyDict
    /\ idx = -1
    /\ eid2idx = <<>>
    /\ gmdata = 0
    /\ checks = 0
    /\ error = None
    /\ retval = None
    /\ builder = NoBuilder

InitArgGen ==
    /\ NoRun
    /\ getter = NoGetter
    /\ gen_args = NoGenArgs
    /\ call = NoCall
    /\ \E n \in 0..MaxTaxonomies :
          \E counts \in [1..n -> 0..MaxAssets], b \in 1..MaxBlockSize :
             arg_gen = [NoArgGen EXCEPT !.taxonomies_asset_count = counts,
                                        !.block_size = b, !.pc = "for"]

\* the quotient of divmod(num_assets, block_size) without the rounding up
ExpectedFloor(num_assets, block_size) == num_assets \div block_size

\* line 104-106: divmod(num_assets, block_size), one more for a remainder
TasksOf(num_assets, block_size) ==
    LET n == num_assets \div block_size
        r == num_assets % block_size
    IN IF r # 0 THEN n + 1 ELSE n

\* line 98-108
RECURSIVE expected_tasks(_, _)
expected_tasks(counts, block_size) ==
    IF counts = <<>> THEN 0
    ELSE TasksOf(Head(counts), block_size)
            + expected_tasks(Tail(counts), block_size)

\* line 142-158: the next offset of range(0, assets_nr, block_size) gives a
\* task, which is counted and yielded
ArgGenYield ==
    /\ arg_gen.pc = "for"
    /\ arg_gen.t <= Len(arg_gen.taxonomies_asset_count)
    /\ arg_gen.offset < arg_gen.taxonomies_asset_count[arg_gen.t]
    /\ arg_gen' = [arg_gen EXCEPT
                     !.num_tasks = @ + 1,
                     !.yielded = Append(@, <<arg_gen.t, arg_gen.offset>>),
                     !.offset = @ + arg_gen.block_size]
    /\ UNCHANGED <<run_vars, builder, getter, gen_args, call>>

\* line 141-144: the range is exhausted, the next taxonomy is taken
ArgGenNextTaxonomy ==
    /\ arg_gen.pc = "for"
    /\ arg_gen.t <= Len(arg_gen.taxonomies_asset_count)
    /\ arg_gen.offset >= arg_gen.taxonomies_asset_count[arg_gen.t]
    /\ arg_gen' = [arg_gen EXCEPT !.t = @ + 1, !.offset = 0]
    /\ UNCHANGED <<run_vars, builder, getter, gen_args, call>>

\* line 160-165: the sanity check after the loops
ArgGenCheck ==
    /\ arg_gen.pc = "for"
    /\ arg_gen.t > Len(arg_gen.taxonomies_asset_count)
    /\ arg_gen' =
          [arg_gen EXCEPT !.pc =
              IF arg_gen.num_tasks #
                    expected_tasks(arg_gen.taxonomies_asset_count,
                                   arg_gen.block_size)
              THEN "RuntimeError" ELSE "return"]
    /\ UNCHANGED <<run_vars, builder, getter, gen_args, call>>

NextArgGen ==
    \/ ArgGenYield
    \/ ArgGenNextTaxonomy
    \/ ArgGenCheck

SpecArgGen == InitArgGen /\ [][NextArgGen]_vars

(***************************************************************************)
(* HazardCurveGetterPerAsset (engine/calculators/risk/hazard_getters.py):  *)
(* up to MaxCalls calls of get_by_site on one getter, for the locations of *)
(* Wkts and the hazard curves of HazardIds.  What the database answers to  *)
(* a query is any of Curves, or no row at all.                             *)
(***************************************************************************)
MaxCalls == 4
Wkts == {"POINT (0 0)", "POINT (1 1)"}
HazardIds == {1, 2}
Curves == {"curve a", "curve b"}
Imls == {"imls a", "imls b"}

\* line 156-159: __init__
InitGetter ==
    /\ NoRun
    /\ arg_gen = NoArgGen
    /\ gen_args = NoGenArgs
    /\ call = NoCall
    /\ getter = [NoGetter EXCEPT !.pc = "ready"]

\* line 215: if site.wkt in self._cache
NeverCached(cache, wkt) == FALSE
InCache(cache, wkt) == wkt \in DOMAIN cache

\* line 209-241: one call of get_by_site; a query without a row ends in the
\* TypeError of the unpacking of line 235.  The hazard returned is
\* zip(imls, poes), with poes a row of the curve hazard_curve_id of the query;
\* returned keeps the location, the value and the arguments of each call
GetBySite ==
    /\ getter.pc = "ready"
    /\ Len(getter.returned) < MaxCalls
    /\ \E wkt \in Wkts, hazard_id \in HazardIds, imls \in Imls :
          LET args == [hazard_id |-> hazard_id, imls |-> imls]
          IN IF InCache(getter.cache, wkt)
             THEN getter' = [getter EXCEPT
                               !.returned =
                                  Append(@, <<wkt, getter.cache[wkt], args>>)]
             ELSE \E row \in Curves \cup {None} :
                     LET asked == Append(getter.queries,
                                         [wkt |-> wkt, hazard_id |-> hazard_id])
                         hazard == [imls |-> imls, poes |-> row,
                                    hazard_curve_id |-> hazard_id]
                     IN getter' =
                           IF row = None
                           THEN [getter EXCEPT !.queries = asked,
                                               !.pc = "TypeError"]
                           ELSE [getter EXCEPT
                                   !.queries = asked,
                                   !.cache = Put(@, wkt, hazard),
                                   !.returned =
                                      Append(@, <<wkt, hazard, args>>)]
    /\ UNCHANGED <<run_vars, builder, arg_gen, gen_args, call>>

NextGetter == GetBySite

SpecGetter == InitGetter /\ [][NextGetter]_vars

(***************************************************************************)
(* The genargs generators of from_sources and from_ruptures, with the      *)
(* parameter dictionaries as objects: up to MaxTuples argument tuples are  *)
(* pulled one after the other, for every assignment of 1..MaxSamples       *)
(* samples to the groups.                                                  *)
(***************************************************************************)
MaxTuples == 3
MaxSamples == 2

\* the groups of the blocks of split_in_blocks(ruptures, ct, key=grp_id): the
\* blocks of a group follow each other
BlockGroups ==
    {s \in UNION {[1..n -> Groups] : n \in 0..MaxTuples} :
        \A i \in 1..(Len(s) - 1) : s[i] <= s[i + 1]}

\* the groups of the tuples of from_ruptures: for each slice, every group
SliceGroups ==
    {Concat([k \in 1..nslices |-> SortSet(Groups)]) :
        nslices \in 0..(MaxTuples \div 2)}

InitGenArgs ==
    /\ NoRun
    /\ arg_gen = NoArgGen
    /\ getter = NoGetter
    /\ call = NoCall
    /\ \E sbg \in [Groups -> 1..MaxSamples] :
          \/ \E grps \in BlockGroups :
                gen_args = [NoGenArgs EXCEPT !.kind = "sources",
                                             !.samples_by_grp = sbg,
                                             !.grps = grps, !.pc = "gen"]
          \/ \E grps \in SliceGroups :
                gen_args = [NoGenArgs EXCEPT !.kind = "ruptures",
                                             !.samples_by_grp = sbg,
                                             !.grps = grps, !.pc = "gen"]

\* line 303-304: par['samples'] = ...; yield rups, src_filter, rlzs_by_gsim, par
\* where par is the dictionary that from_sources received
GenArgsFromSources ==
    /\ gen_args.pc = "gen"
    /\ gen_args.kind = "sources"
    /\ gen_args.grps # <<>>
    /\ LET grp_id == Head(gen_args.grps)
       IN gen_args' =
             [gen_args EXCEPT
                !.grps = Tail(@),
                !.pars[0].samples = gen_args.samples_by_grp[grp_id],
                !.pulled = Append(@, [grp_id |-> grp_id, par |-> 0])]
    /\ UNCHANGED <<run_vars, builder, arg_gen, getter, call>>

\* line 213-215: par = param.copy(); par['samples'] = ...; yield ..., par
GenArgsFromRuptures ==
    /\ gen_args.pc = "gen"
    /\ gen_args.kind = "ruptures"
    /\ gen_args.grps # <<>>
    /\ LET grp_id == Head(gen_args.grps)
           new == Len(gen_args.pulled) + 1
       IN gen_args' =
             [gen_args EXCEPT
                !.grps = Tail(@),
                !.pars = Put(@, new,
                             [gen_args.pars[0] EXCEPT
                                !.samples = gen_args.samples_by_grp[grp_id]]),
                !.pulled = Append(@, [grp_id |-> grp_id, par |-> new])]
    /\ UNCHANGED <<run_vars, builder, arg_gen, getter, call>>

\* the generator is exhausted
GenArgsEnd ==
    /\ gen_args.pc = "gen"
    /\ gen_args.grps = <<>>
    /\ gen_args' = [gen_args EXCEPT !.pc = "return"]
    /\ UNCHANGED <<run_vars, builder, arg_gen, getter, call>>

NextGenArgs ==
    \/ GenArgsFromSources
    \/ GenArgsFromRuptures
    \/ GenArgsEnd

SpecGenArgs == InitGenArgs /\ [][NextGenArgs]_vars

(***************************************************************************)
(* Single calls of HazardGetter.__call__ and of compute_loss_ratios, on    *)
(* arguments from bounded sets.  Asset ids are 1..MaxIds.  Intensities and *)
(* loss ratios are in eighths: the IMLs of a vulnerability function are    *)
(* among 2/8, 4/8, 6/8, its loss ratios among 0, 4/8, 8/8, and a ground    *)
(* motion field has up to MaxGmvs values among 0/8 .. 7/8.                 *)
(***************************************************************************)
MaxIds == 3
MaxGmvs == 2

\* shapes.Curve objects as sequences of points of increasing abscissa;
\* shapes.EMPTY_CURVE is the curve without points
VulnFunctions ==
    {[i \in 1..Cardinality(S) |->
         [iml |-> SortSet(S)[i], loss_ratio |-> f[SortSet(S)[i]]]] :
        <<S, f>> \in UNION {{<<T, g>> : g \in [T -> {0, 4, 8}]} :
                              T \in SUBSET {2, 4, 6}}}

\* ground_motion_field["IMLs"]
GroundMotionFields ==
    UNION {[1..n -> 0..7] : n \in 0..MaxGmvs}

\* what get_data returns: the ids of assets, in any order and also ids that
\* are not among those of the getter, each with its hazard
GetDataResults ==
    {ids \in UNION {[1..n -> 1..MaxIds] : n \in 0..MaxIds} :
        \A i, j \in DOMAIN ids : ids[i] = ids[j] => i = j}

\* hazard_getters.py:144-149: the assets of the ids that are in asset_dict,
\* and the data as get_data returned it
HazardGetter_call(asset_dict, asset_ids, data) ==
    LET Known(asset_id) == asset_id \in DOMAIN asset_dict
        known == SelectSeq(asset_ids, Known)
    IN <<[i \in DOMAIN known |-> asset_dict[known[i]]], data>>

\* shapes.Curve.ordinate_for(x) for an x within the abscissae: the ordinate
\* of the point at x, and between two points the value on the segment
ordinate_for(vuln_function, x) ==
    LET i == CHOOSE j \in DOMAIN vuln_function :
                /\ vuln_function[j].iml <= x
                /\ j < Len(vuln_function) => x < vuln_function[j + 1].iml
        a == vuln_function[i]
    IN IF a.iml = x THEN a.loss_ratio
       ELSE LET b == vuln_function[i + 1]
            IN a.loss_ratio + ((b.loss_ratio - a.loss_ratio) * (x - a.iml))
                                 \div (b.iml - a.iml)

\* probabilistic_event_based.py:8-28
compute_loss_ratios(vuln_function, ground_motion_field) ==
    IF vuln_function = <<>> \/ ground_motion_field.IMLs = <<>>
    THEN <<>>
    ELSE LET imls == [i \in DOMAIN vuln_function |-> vuln_function[i].iml]
         IN [k \in DOMAIN ground_motion_field.IMLs |->
                LET ground_motion_value == ground_motion_field.IMLs[k]
                IN IF ground_motion_value < imls[1] THEN 0
                   ELSE IF ground_motion_value > imls[Len(imls)]
                        THEN imls[Len(imls)]
                        ELSE ordinate_for(vuln_function, ground_motion_value)]

InitCall ==
    /\ NoRun
    /\ arg_gen = NoArgGen
    /\ getter = NoGetter
    /\ gen_args = NoGenArgs
    /\ \/ \E own \in SUBSET (1..MaxIds), asset_ids \in GetDataResults :
             call = [fn |-> "HazardGetter.__call__",
                     args |-> [asset_dict |-> [id \in own |-> [id |-> id]],
                               asset_ids |-> asset_ids,
                               data |-> [i \in DOMAIN asset_ids |->
                                           [hazard_of |-> asset_ids[i]]]],
                     result |-> <<>>, pc |-> "called"]
       \/ \E vf \in VulnFunctions, gmvs \in GroundMotionFields :
             call = [fn |-> "compute_loss_ratios",
                     args |-> [vuln_function |-> vf,
                               ground_motion_field |-> [IMLs |-> gmvs]],
                     result |-> <<>>, pc |-> "called"]

CallHazardGetter ==
    /\ call.pc = "called"
    /\ call.fn = "HazardGetter.__call__"
    /\ call' = [call EXCEPT
                  !.result = HazardGetter_call(call.args.asset_dict,
                                               call.args.asset_ids,
                                               call.args.data),
                  !.pc = "returned"]
    /\ UNCHANGED <<run_vars, builder, arg_gen, getter, gen_args>>

CallComputeLossRatios ==
    /\ call.pc = "called"
    /\ call.fn = "compute_loss_ratios"
    /\ call' = [call EXCEPT
                  !.result = compute_loss_ratios(call.args.vuln_function,
                                                 call.args.ground_motion_field),
                  !.pc = "returned"]
    /\ UNCHANGED <<run_vars, builder, arg_gen, getter, gen_args>>

NextCall ==
    \/ CallHazardGetter
    \/ CallComputeLossRatios

SpecCall == InitCall /\ [][NextCall]_vars

(***************************************************************************)
(* What the claims speak about.                                            *)
(***************************************************************************)
\* the rows of gmf_data/data
GmfData == Get(datastore, "gmf_data/data", <<>>)

\* the (start, stop) ranges recorded for a site, as a set of <<k, start, stop>>
SiteRanges(ind, sid) ==
    LET starts == Get(ind, <<sid, 0>>, <<>>)
        stops == Get(ind, <<sid, 1>>, <<>>)
    IN {<<k, starts[k], stops[k]>> : k \in DOMAIN starts \cap DOMAIN stops}

AllRanges ==
    UNION {{<<sid, rg>> : rg \in SiteRanges(indices, sid)} : sid \in Sids}

\* the task whose result an agg_dicts step folds
IsFold(i) == i \notin folded /\ folded' = folded \cup {i}

(***************************************************************************)
(* C1: after any sequence of agg_dicts calls from offset = 0 and empty     *)
(* indices, with batches whose (sid, start, stop) ranges partition their   *)
(* rows, the global ranges recorded in self.indices lie in [0, offset),    *)
(* and every row position below the offset is covered by exactly one       *)
(* recorded range of one site.                                             *)
(***************************************************************************)
C1_RangesPartitionRows ==
    /\ \A sid \in Sids :
          Len(Get(indices, <<sid, 0>>, <<>>)) = Len(Get(indices, <<sid, 1>>, <<>>))
    /\ \A x \in AllRanges : 0 <= x[2][2] /\ x[2][2] <= x[2][3] /\ x[2][3] <= offset
    /\ \A p \in 0..(offset - 1) :
          Cardinality({x \in AllRanges : x[2][2] <= p /\ p < x[2][3]}) = 1

\* two batches with rows were folded, and a site has two ranges
C1_Witness ==
    /\ Cardinality(folded) = 2
    /\ \E sid \in Sids : Len(Get(indices, <<sid, 0>>, <<>>)) = 2
    /\ offset = 3
    /\ pc = "done"

(***************************************************************************)
(* C2: an agg_dicts call records every (sid, start, stop) of its batch as  *)
(* (start + o, stop + o), o being self.offset before the call, and         *)
(* advances self.offset by len(data) once; after the call self.offset is   *)
(* the number of rows of gmf_data/data.                                    *)
(***************************************************************************)
StartsOf(triples, sid, o) ==
    LET Mine(t) == t[1] = sid
        mine == SelectSeq(triples, Mine)
    IN [k \in DOMAIN mine |-> mine[k][2] + o]

StopsOf(triples, sid, o) ==
    LET Mine(t) == t[1] = sid
        mine == SelectSeq(triples, Mine)
    IN [k \in DOMAIN mine |-> mine[k][3] + o]

C2_Step ==
    \A i \in DOMAIN results :
        IsFold(i) /\ results[i].has_gmdata =>
           /\ offset' = offset + Len(results[i].gmfdata)
           /\ offset' = Len(Get(datastore', "gmf_data/data", <<>>))
           /\ \A sid \in Sids :
                 /\ Get(indices', <<sid, 0>>, <<>>) =
                       Get(indices, <<sid, 0>>, <<>>)
                          \o StartsOf(results[i].indices, sid, offset)
                 /\ Get(indices', <<sid, 1>>, <<>>) =
                       Get(indices, <<sid, 1>>, <<>>)
                          \o StopsOf(results[i].indices, sid, offset)

C2_OffsetBeforeAdvance == [][C2_Step]_vars

\* a second batch was recorded behind the rows of a first one
C2_Witness ==
    /\ Cardinality(folded) = 2
    /\ offset = 2
    /\ \E sid \in Sids : SiteRanges(indices, sid) = {<<1, 1, 2>>}

(***************************************************************************)
(* C3, as claimed: when the run is over, the rows of every site form one   *)
(* contiguous block of gmf_data/data.                                      *)
(***************************************************************************)
C3_OneBlockPerSite ==
    pc = "done" =>
       \A i, j, k \in DOMAIN GmfData :
          i < j /\ j < k /\ GmfData[i].sid = GmfData[k].sid
             => GmfData[j].sid = GmfData[i].sid

(***************************************************************************)
(* C3, amended: the rows of a site are exactly the rows inside the ranges  *)
(* recorded for that site, one range per batch that has rows of the site;  *)
(* the ranges of one site need not be adjacent.                            *)
(***************************************************************************)
C3_RangesHoldSiteRows ==
    \A sid \in Sids :
       /\ \A p \in DOMAIN GmfData :
             GmfData[p].sid = sid <=>
                \E rg \in SiteRanges(indices, sid) : rg[2] < p /\ p <= rg[3]
       /\ Cardinality(SiteRanges(indices, sid)) <= Cardinality(folded)

\* the rows of site 0 of two batches, with a row of site 1 between them
C3_Witness ==
    /\ pc = "done"
    /\ Len(GmfData) = 3
    /\ GmfData[1].sid = 0 /\ GmfData[2].sid = 1 /\ GmfData[3].sid = 0
    /\ SiteRanges(indices, 0) = {<<1, 0, 1>>, <<2, 2, 3>>}

(***************************************************************************)
(* C4: the accumulator is the same for every order in which agg_dicts gets *)
(* the results: whatever the order of the folds so far, the probability    *)
(* maps are those of folding the same results in the order of the tasks.   *)
(***************************************************************************)
RECURSIVE FoldInOrder(_, _)
FoldInOrder(a, order) ==
    IF order = <<>> THEN a
    ELSE FoldInOrder(FoldCurves(a, results[Head(order)].hcurves), Tail(order))

C4_FoldOrderIndependent ==
    acc # EmptyDict => acc = FoldInOrder(zerodict, SortSet(folded))

\* two results with different poes for one cell were folded: 1 - 1/2 * 3/4
C4_Witness ==
    /\ folded = {1, 2}
    /\ \E r \in DOMAIN acc : \E sid \in DOMAIN acc[r] : \E l \in 1..L :
          /\ acc[r][sid][l] = <<5, 3>>
          /\ \E i, j \in folded :
                /\ results[i].hcurves # <<>> /\ results[j].hcurves # <<>>
                /\ results[i].hcurves[1].poes = [k \in {l} |-> Half]
                /\ results[j].hcurves[1].poes = [k \in {l} |-> Quarter]

(***************************************************************************)
(* C5: folding a contribution whose poes are all 0 for (r, sid, imt)       *)
(* leaves the values stored for that realization, site and IMT slice       *)
(* unchanged, and folding it again changes nothing.                        *)
(***************************************************************************)
AllZero(hc) == \A l \in DOMAIN hc.poes : hc.poes[l] = Zero

C5_Step ==
    \A i \in DOMAIN results :
       IsFold(i) =>
          \A k \in DOMAIN results[i].hcurves :
             LET hc == results[i].hcurves[k]
             IN AllZero(hc) =>
                   /\ hc.sid \in DOMAIN acc[hc.r] =>
                         \A l \in imtls(hc.imt) :
                            acc'[hc.r][hc.sid][l] = acc[hc.r][hc.sid][l]
                   /\ FoldCurve(acc', hc) = acc'
                   /\ FoldCurve(FoldCurve(acc', hc), hc) = acc'

C5_ZeroPoeIsIdentity == [][C5_Step]_vars

\* a zero contribution was folded on a cell that held 1/2
C5_Witness ==
    /\ folded = {1, 2}
    /\ \E i, j \in folded :
          /\ results[i].hcurves # <<>> /\ results[j].hcurves # <<>>
          /\ AllZero(results[i].hcurves[1])
          /\ results[j].hcurves[1] =
                [results[i].hcurves[1] EXCEPT
                    !.poes = [l \in DOMAIN @ |-> Half]]
          /\ LET hc == results[i].hcurves[1]
             IN \A l \in imtls(hc.imt) : acc[hc.r][hc.sid][l] = Half

(***************************************************************************)
(* The counts check_overflow compares, and the limits, as the claims state *)
(* them.                                                                   *)
(***************************************************************************)
NumEvents == IF "events" \in DOMAIN datastore THEN Len(datastore["events"]) ELSE 0

OverLimit ==
    \/ sitecol.n > MaxSites
    \/ NumEvents > TWO32
    \/ oqparam.num_imts > MaxImts

IndicesWritten ==
    \/ "gmf_data/indices" \in DOMAIN datastore
    \/ "gmf_data/events_by_sid" \in DOMAIN datastore
    \/ "gmf_data" \in DOMAIN attrs

C8_State ==
    /\ checks \in {0, 1}
    /\ pc \in {"execute", "smap", "store", "drain", "submit", "reduce"}
          => checks = 0
    /\ pc = "save" \/ retval = "acc" => checks = 1
    /\ IndicesWritten => checks = 1 /\ error # "ValueError"
    /\ error = "ValueError" => checks = 1 /\ ~IndicesWritten /\ retval = None

C8_Step ==
    /\ checks' # checks =>
          /\ checks = 0 /\ checks' = 1
          /\ folded = DOMAIN tasks /\ DOMAIN results = DOMAIN tasks
          /\ iterargs = <<>>
          /\ ~IndicesWritten /\ ~IndicesWritten'
    /\ checks = 1 => UNCHANGED <<folded, reducer_vars>>

C8_CheckOnceAfterReduction == []C8_State /\ [][C8_Step]_vars

\* the check raised after two results with rows were folded
C8_Witness ==
    /\ error = "ValueError"
    /\ Cardinality(folded) = 2
    /\ offset > 0
    /\ indices # EmptyDict

FromSourcesRun == oqparam.hazard_calculation_id = 0 /\ ~ucerf

BeforeSort == pc \in {"execute", "smap", "store"}

SourceEvents ==
    LET rups == AllRuptures(csm)
    IN UNION {Range(get_events(<<rups[i]>>, rlzs_by_gsim_grp[rups[i].grp_id])) :
                 i \in DOMAIN rups}

C10_State ==
    FromSourcesRun =>
       /\ BeforeSort => iterargs = <<>> /\ tasks = <<>> /\ eid2idx = <<>>
       /\ iterargs # <<>> \/ tasks # <<>> \/ eid2idx # <<>>
             \/ pc \in {"drain", "submit", "reduce", "save", "done"} =>
                /\ smap = {} /\ store_queue = <<>>
                /\ "events" \in DOMAIN datastore
                /\ IsSorted(datastore["events"])
                /\ Range(datastore["events"]) = SourceEvents
                /\ Len(datastore["events"]) = Cardinality(SourceEvents)
       /\ eid2idx # <<>> =>
             /\ DOMAIN eid2idx[1] = Range(datastore["events"])
             /\ \A i \in DOMAIN datastore["events"] :
                   eid2idx[1][datastore["events"][i]] = i - 1

C10_Step ==
    FromSourcesRun /\ ~BeforeSort =>
       /\ "events" \in DOMAIN datastore => "events" \in DOMAIN datastore'
             /\ datastore'["events"] = datastore["events"]
       /\ "events" \notin DOMAIN datastore => "events" \notin DOMAIN datastore'

C10_EventsSortedBeforeUse == []C10_State /\ [][C10_Step]_vars

\* the sources were stored against the order of their eids, and eid2idx was
\* computed
C10_Witness ==
    /\ FromSourcesRun
    /\ eid2idx # <<>>
    /\ Len(srcs_by_grp) = 2
    /\ srcs_by_grp[1].srcs[1].eb_ruptures # <<>>
    /\ srcs_by_grp[2].srcs[1].eb_ruptures # <<>>
    /\ srcs_by_grp[1].srcs[1].eb_ruptures[1].serial = 1
    /\ pc = "done"

(***************************************************************************)
(* C11: when execute has finished, the eids of the events dataset are      *)
(* pairwise distinct and in ascending order, in the non-ucerf branch       *)
(* (saved by _store_ruptures, then sorted) and in the ucerf branch         *)
(* (appended by agg_dicts in the order in which the tasks complete).       *)
(***************************************************************************)
StrictlyAscending(s) == \A i, j \in DOMAIN s : i < j => s[i] < s[j]

C11_EventsAscending ==
    pc = "done" /\ "events" \in DOMAIN datastore
       => StrictlyAscending(datastore["events"])

(***************************************************************************)
(* C12: after agg_dicts has stored a batch, the eid field of every row of  *)
(* gmf_data/data is the position, in the events dataset, of the event that *)
(* generated the row, in the non-ucerf branch (eid2idx of the sorted       *)
(* events) and in the ucerf branch (the self.idx counter), after any       *)
(* number of batches folded in any order.                                  *)
(***************************************************************************)
C12_RowsPointToEvents ==
    \A p \in DOMAIN GmfData :
       /\ "events" \in DOMAIN datastore
       /\ GmfData[p].eid + 1 \in DOMAIN datastore["events"]
       /\ datastore["events"][GmfData[p].eid + 1] = GmfData[p].gmv

\* a ucerf run folded its second task first: the events are stored against
\* the order of their eids, and the rows of both tasks were renumbered
C12_Witness ==
    /\ ucerf
    /\ pc = "done"
    /\ Cardinality(folded) = 2
    /\ "events" \in DOMAIN datastore
    /\ ~StrictlyAscending(datastore["events"])
    /\ \E p, q \in DOMAIN GmfData :
          /\ GmfData[p].eid # GmfData[p].gmv
          /\ GmfData[q].eid # GmfData[q].gmv
          /\ GmfData[p].eid # GmfData[q].eid

(***************************************************************************)
(* C13: in the ucerf branch self.idx starts at 0, an agg_dicts call        *)
(* advances it once for every event save_ruptures returns, it never        *)
(* decreases, no index is handed out twice, and after any sequence of      *)
(* batches it equals the number of events of the events dataset.           *)
(***************************************************************************)
\* the rows an agg_dicts step appends to gmf_data/data
NewRows ==
    LET old == Len(GmfData)
        new == Get(datastore', "gmf_data/data", <<>>)
    IN {new[p] : p \in (old + 1)..Len(new)}

C13_State ==
    ucerf =>
       /\ idx = -1 <=> pc = "execute" \/ ~oqparam.ground_motion_fields
       /\ idx # -1 => idx = NumEvents
       /\ idx # -1 /\ folded = {} => idx = 0

C13_Step ==
    ucerf =>
       /\ idx # -1 => idx' >= idx
       /\ \A i \in DOMAIN results :
             IsFold(i) =>
                LET ev == get_events(results[i].ruptures,
                                     rlzs_by_gsim_grp[tasks[i].grp_id])
                IN /\ idx' = idx + Len(ev)
                   /\ Get(datastore', "events", <<>>) =
                         Get(datastore, "events", <<>>) \o ev
                   /\ \A row \in NewRows : idx <= row.eid /\ row.eid < idx'
                   /\ \A r1, r2 \in NewRows :
                         r1.gmv # r2.gmv => r1.eid # r2.eid

C13_IdxCountsEvents == []C13_State /\ [][C13_Step]_vars

\* two ucerf batches with events and rows were folded
C13_Witness ==
    /\ ucerf
    /\ Cardinality(folded) = 2
    /\ idx = 2 * MaxOcc * R
    /\ NumEvents = idx
    /\ \E p, q \in DOMAIN GmfData : GmfData[p].eid < MaxOcc * R
                                    /\ GmfData[q].eid >= MaxOcc * R

(***************************************************************************)
(* The calls of save_ruptures made by _store_ruptures: the sources in the  *)
(* order of the loop of line 230-232, those saved so far, and the lists    *)
(* with a rupture whose events disagree with get_eids.                     *)
(***************************************************************************)
AllSrcs == Concat([k \in DOMAIN srcs_by_grp |-> srcs_by_grp[k].srcs])

SavedSrcs == SubSeq(AllSrcs, 1, Len(AllSrcs) - Len(store_queue))

Storing == pc = "store" \/ error = "AssertionError"

Skewed(rups) == \E i \in DOMAIN rups : rups[i].skew # 0

EventsOfSrc(src) ==
    Concat([i \in DOMAIN src.eb_ruptures |->
               [k \in 1..(src.eb_ruptures[i].n_occ
                             * SumLen(rlzs_by_gsim_grp[src.src_group_id])) |->
                   EidStride * src.eb_ruptures[i].serial + (k - 1)]])

(***************************************************************************)
(* C14: save_ruptures compares the eids of rup.get_eids(num_rlzs) over the *)
(* list with the eids of the expanded events; on a mismatch it raises and  *)
(* appends no event of that call: the events dataset holds the events of   *)
(* the earlier calls only, none of which mismatched.                       *)
(***************************************************************************)
C14_MismatchRaises ==
    /\ Storing =>
          /\ \A k \in DOMAIN SavedSrcs : ~Skewed(SavedSrcs[k].eb_ruptures)
          /\ Get(datastore, "events", <<>>) =
                Concat([k \in DOMAIN SavedSrcs |-> EventsOfSrc(SavedSrcs[k])])
    /\ error = "AssertionError" =>
          /\ pc = "failed" /\ retval = None
          /\ store_queue # <<>> /\ Skewed(Head(store_queue).eb_ruptures)
    /\ pc \in {"drain", "done"} =>
          \A i \in DOMAIN csm : ~Skewed(csm[i].eb_ruptures)

\* the call for a list of two ruptures, the second of which mismatches,
\* raised after an earlier call had appended its events
C14_Witness ==
    /\ error = "AssertionError"
    /\ Len(SavedSrcs) = 1
    /\ Len(Get(datastore, "events", <<>>)) > 0
    /\ Len(Head(store_queue).eb_ruptures) = 2
    /\ Head(store_queue).eb_ruptures[2].skew # 0

(***************************************************************************)
(* C15: every save_ruptures call for a non-empty list of ruptures of one   *)
(* group whose eids agree appends (sum of n_occ over the ruptures) times   *)
(* (sum of len(rlzs) over the gsims of the group) events: after any number *)
(* of calls the events dataset has the sum of these numbers over the calls *)
(* made, and a call raises only for a list that mismatches.                *)
(***************************************************************************)
NumEventsOf(src) ==
    SumSeq([i \in DOMAIN src.eb_ruptures |-> src.eb_ruptures[i].n_occ])
       * SumLen(rlzs_by_gsim_grp[src.src_group_id])

ReductionOver == checks = 1 /\ pc \in {"done", "failed"}

NoRanges == \A sid \in Sids : SiteRanges(indices, sid) = {}

C16_NoGmfsIffNoRanges ==
    ReductionOver =>
       (error = "RuntimeError: no GMFs"
           <=> NoRanges /\ oqparam.ground_motion_fields /\ ~ucerf)

(***************************************************************************)
(* C16, amended: a run whose reduction completed and whose counts passed   *)
(* check_overflow raises the RuntimeError if and only if no per-site range *)
(* was recorded, ground_motion_fields is true and the mode is not a ucerf  *)
(* one; a ucerf run without rows returns the accumulator, and so does      *)
(* every run with a recorded range.  A run over a limit ends with the      *)
(* ValueError of check_overflow, with or without ranges.                   *)
(***************************************************************************)
C16_NoGmfsIffNoRangesChecked ==
    ReductionOver =>
       /\ error = "RuntimeError: no GMFs"
             <=> /\ ~OverLimit
                 /\ NoRanges /\ oqparam.ground_motion_fields /\ ~ucerf
       /\ ~OverLimit /\ NoRanges /\ ucerf =>
             pc = "done" /\ error = None /\ retval = "acc"
       /\ ~OverLimit /\ ~NoRanges =>
             pc = "done" /\ error = None /\ retval = "acc"
       /\ OverLimit => error = "ValueError"

\* two tasks were folded, their batches had no row, and the run failed
C16_Witness ==
    /\ error = "RuntimeError: no GMFs"
    /\ Cardinality(folded) = 2
    /\ \A i \in folded : results[i].has_gmdata /\ results[i].gmfdata = <<>>
    /\ gmdata = 0

(***************************************************************************)
(* The batches of a build_ruptures call: the number of ruptures and of     *)
(* rupture occurrences of a list of sources, and the batches yielded       *)
(* inside the loop (all but a batch yielded by line 92).                   *)
(***************************************************************************)
NumRuptures(srcs) == SumSeq([k \in DOMAIN srcs |-> Len(srcs[k].eb_ruptures)])

Occurrences(srcs) ==
    SumSeq([k \in DOMAIN srcs |->
               SumSeq([j \in DOMAIN srcs[k].eb_ruptures |->
                          srcs[k].eb_ruptures[j].n_occ])])

ButLast(s) == SubSeq(s, 1, Len(s) - 1)

Building == builder.pc # "idle"

\* the sources taken so far are in the yielded batches and the open one
NothingLost ==
    Concat(builder.yielded)
       \o (IF builder.pc = "for" THEN builder.acc ELSE <<>>)
          = SubSeq(builder.srcs, 1, builder.i)

(***************************************************************************)
(* C17, as claimed: the open batch is yielded as soon as the rupture       *)
(* occurrences (the n_occ of the ruptures) accumulated in it exceed        *)
(* ruptures_per_block: the loop never goes on with an open batch of more   *)
(* occurrences than the budget.                                            *)
(***************************************************************************)
C17_FlushOnOccurrences ==
    Building /\ builder.pc = "for" =>
       Occurrences(builder.acc) <= builder.ruptures_per_block

(***************************************************************************)
(* C17, amended: the count is the number of sampled ruptures               *)
(* (len(eb_ruptures)), whatever their n_occ.  The open batch is yielded as *)
(* soon as it holds more ruptures than ruptures_per_block, not before, and *)
(* the count restarts from 0 with an empty batch.                          *)
(***************************************************************************)
C17_FlushOnRuptures ==
    Building =>
       /\ NothingLost
       /\ builder.n = NumRuptures(builder.acc)
       /\ builder.pc = "for" =>
             NumRuptures(builder.acc) <= builder.ruptures_per_block
       /\ builder.pc = "yield" =>
             builder.yielded[Len(builder.yielded)] = builder.acc
       /\ \A k \in DOMAIN builder.yielded :
             /\ NumRuptures(ButLast(builder.yielded[k]))
                   <= builder.ruptures_per_block
             /\ k < Len(builder.yielded) \/ builder.pc = "yield" =>
                   NumRuptures(builder.yielded[k]) > builder.ruptures_per_block

\* a batch of two sources was yielded, the count restarted, and the loop went
\* on with an open batch of more occurrences than the budget
C17_Witness ==
    /\ builder.pc = "for"
    /\ Len(builder.yielded) = 1
    /\ Len(builder.yielded[1]) = 2
    /\ builder.n = 1
    /\ Len(builder.acc) = 1
    /\ Occurrences(builder.acc) > builder.ruptures_per_block

(***************************************************************************)
(* C18, as claimed: a source with zero ruptures contributes no batch: no   *)
(* yielded batch is made only of zero-rupture sources, and a call whose    *)
(* sources all have zero ruptures yields nothing.                          *)
(***************************************************************************)
C18_NoBatchWithoutRuptures ==
    Building =>
       /\ \A k \in DOMAIN builder.yielded : NumRuptures(builder.yielded[k]) > 0
       /\ NumRuptures(builder.srcs) = 0 => builder.yielded = <<>>

(***************************************************************************)
(* C18, amended: a source with zero ruptures adds nothing to the count but *)
(* is appended to the open batch like any other: when the call is over     *)
(* every source is in exactly one batch, in the order of the block.  A     *)
(* batch made only of zero-rupture sources is never yielded inside the     *)
(* loop; it is the last batch, yielded by line 92, and a call whose        *)
(* sources all have zero ruptures yields one batch with all of them.       *)
(***************************************************************************)
C18_ZeroRuptureSourcesYielded ==
    Building =>
       /\ \A k \in DOMAIN builder.yielded :
             /\ builder.yielded[k] # <<>>
             /\ NumRuptures(builder.yielded[k]) = 0 =>
                   builder.pc = "return" /\ k = Len(builder.yielded)
       /\ builder.pc = "return" =>
             /\ Concat(builder.yielded) = builder.srcs
             /\ NumRuptures(builder.srcs) = 0 =>
                   builder.yielded = <<builder.srcs>>

\* a batch was yielded inside the loop, and the sources left, none of which
\* has ruptures, made the last batch
C18_Witness ==
    /\ builder.pc = "return"
    /\ Len(builder.yielded) = 2
    /\ NumRuptures(builder.yielded[1]) > 0
    /\ Len(builder.yielded[2]) = 2
    /\ NumRuptures(builder.yielded[2]) = 0

(***************************************************************************)
(* post_execute: its end, the datasets of curves and maps, the counts of   *)
(* weights and probability maps.                                           *)
(***************************************************************************)
PostOver == pc \in {"post_executed", "failed"}

CurvesWritten ==
    \E k \in {"hcurves/mean", "hcurves/max", "hmaps/mean", "hmaps/max"} :
       k \in DOMAIN datastore

CountsDiffer == Cardinality(DOMAIN acc) # R

(***************************************************************************)
(* C19, as claimed: in post_execute with a non-empty result and            *)
(* hazard_curves_from_gmfs set, a mismatch between the number of weights   *)
(* and the number of probability maps raises an error and no hcurves or    *)
(* hmaps dataset is written, whatever statistics were requested.           *)
(***************************************************************************)
C19_MismatchAlwaysFatal ==
    /\ PostOver /\ acc # EmptyDict /\ oqparam.hazard_curves_from_gmfs
       /\ CountsDiffer
          => pc = "failed" /\ error = "AssertionError" /\ ~CurvesWritten

(***************************************************************************)
(* C19, amended: the mismatch is fatal whenever at least one statistic was *)
(* requested: the AssertionError is raised before anything is written.     *)
(* With no statistic requested the counts are not compared: post_execute   *)
(* ends without error, and writes no hcurves or hmaps dataset either.      *)
(* Without a mismatch the curves of every statistic are written, and the   *)
(* maps when poes is set.                                                  *)
(***************************************************************************)
C19_MismatchFatalWithStats ==
    PostOver /\ acc # EmptyDict /\ oqparam.hazard_curves_from_gmfs =>
       /\ CountsDiffer /\ oqparam.hazard_stats # <<>> =>
             pc = "failed" /\ error = "AssertionError" /\ ~CurvesWritten
       /\ oqparam.hazard_stats = <<>> => error = None /\ ~CurvesWritten
       /\ ~CountsDiffer =>
             /\ error = None
             /\ \A k \in DOMAIN oqparam.hazard_stats :
                   /\ HcurvesKey(oqparam.hazard_stats[k]) \in DOMAIN datastore
                   /\ HmapsKey(oqparam.hazard_stats[k]) \in DOMAIN datastore
                         <=> oqparam.poes # <<>>

\* two statistics and the maps were requested, the result has one
\* probability map more than there are weights, and post_execute raised
C19_Witness ==
    /\ pc = "failed" /\ error = "AssertionError"
    /\ Cardinality(DOMAIN acc) = R + 1
    /\ Len(oqparam.hazard_stats) = 2
    /\ oqparam.poes # <<>>
    /\ oqparam.hazard_curves_from_gmfs


(***************************************************************************)
(* C20: the accumulator has one probability map per realization, and what  *)
(* execute hands to post_execute has as many probability maps as there are *)
(* realizations.                                                           *)
(***************************************************************************)
Realizations == 0..(R - 1)

\* what execute returned, as post_execute receives it
Handed == IF retval = "acc" THEN acc ELSE EmptyDict

UnknownRlz(i) ==
    \E k \in DOMAIN results[i].hcurves :
        results[i].hcurves[k].r \notin Realizations

C20_PmapsEqualRealizations ==
    retval # None => Cardinality(DOMAIN Handed) = R

(***************************************************************************)
(* C20, amended: from the creation of the accumulator on its key set is    *)
(* exactly 0..R-1; folding a result with a contribution for another index  *)
(* ends the run with a KeyError and leaves the key set as it was; an       *)
(* accumulator that execute returns has R probability maps.  A run        *)
(* without a parent calculation and with ground_motion_fields false        *)
(* returns an empty dictionary and hands no probability map to             *)
(* post_execute.                                                           *)
(***************************************************************************)
C20_KeysAreRealizations ==
    /\ DOMAIN acc \in {{}, Realizations}
    /\ pc \in {"submit", "reduce", "save"} => DOMAIN acc = Realizations
    /\ retval = "acc" => Cardinality(DOMAIN Handed) = R
    /\ retval = "{}" =>
          /\ oqparam.hazard_calculation_id = 0
          /\ ~oqparam.ground_motion_fields
          /\ DOMAIN Handed = {}
    /\ (\E i \in folded : UnknownRlz(i)) =>
          /\ pc = "failed" /\ error = "KeyError" /\ retval = None
          /\ DOMAIN acc = Realizations

\* a result was folded up to its contribution for the index R: the one for
\* R - 1 that precedes it is in the accumulator, the run failed
C20_Witness ==
    /\ \E i \in folded :
          /\ Len(results[i].hcurves) = 2
          /\ UnknownRlz(i)
    /\ DOMAIN acc = Realizations
    /\ acc[R - 1] # ProbabilityMap
    /\ error = "KeyError"

(***************************************************************************)
(* C21: while the Starmap runs, a step in which a task finishes leaves the *)
(* offset, the indices, idx, the accumulator and the gmf_data and events   *)
(* datasets as they are; these change only in a step of agg_dicts, which   *)
(* folds exactly one result.                                               *)
(***************************************************************************)
Reducing == pc \in {"submit", "reduce"}

EventsDset == Get(datastore, "events", <<>>)

ReducerOwned == <<offset, indices, idx, acc, GmfData, EventsDset>>

C21_Step ==
    /\ results' # results => UNCHANGED ReducerOwned
    /\ Reducing /\ ReducerOwned' # ReducerOwned =>
          /\ pc = "reduce"
          /\ results' = results
          /\ \E i \in DOMAIN results : IsFold(i)

C21_WorkersLeaveReducerState == [][C21_Step]_vars

\* a task finished after an earlier result had been folded into the state
C21_Witness ==
    /\ pc = "reduce"
    /\ offset > 0
    /\ \E i \in DOMAIN results : i \notin folded
    /\ folded # {}

(***************************************************************************)
(* C22: when a call of agg_dicts raises, execute ends with that error: no  *)
(* further result is folded, check_overflow is not called, execute does    *)
(* not reach save_gmdata and the writing of gmf_data/indices, no result is *)
(* folded a second time and nothing is returned.                           *)
(***************************************************************************)
AggErrors == {"RuntimeError: rows", "KeyError", "AssertionError"}

\* the run ended in the reduction, before check_overflow
AggFailed == error # None /\ folded # {} /\ checks = 0

C22_State ==
    AggFailed =>
       /\ pc = "failed"
       /\ error \in AggErrors
       /\ retval = None
       /\ ~IndicesWritten

C22_Step ==
    /\ pc = "failed" => UNCHANGED vars
    /\ (\E i \in DOMAIN results : IsFold(i)) =>
          /\ pc = "reduce" /\ error = None
          /\ error' # None => pc' = "failed" /\ checks' = 0 /\ retval' = None

C22_AggErrorEndsRun == []C22_State /\ [][C22_Step]_vars

\* agg_dicts raised while the result of another task was still to be folded
C22_Witness ==
    /\ AggFailed
    /\ \E i \in DOMAIN results : i \notin folded
    /\ Cardinality(folded) >= 1

(***************************************************************************)
(* C23: the events dataset that from_sources leaves is the ascending list  *)
(* of the event ids of the source model, whatever the order in which the   *)
(* build_ruptures tasks returned; a source model without events ends the   *)
(* run with a KeyError for every order.                                    *)
(***************************************************************************)
AfterFromSources == pc \in {"drain", "submit", "reduce", "save", "done"}

\* the groups of srcs_by_grp in the order of arrival
ArrivalOrder == [k \in DOMAIN srcs_by_grp |-> srcs_by_grp[k].grp]

C23_EventsIndependentOfArrival ==
    FromSourcesRun =>
       /\ AfterFromSources =>
             /\ "events" \in DOMAIN datastore
             /\ datastore["events"] = SortSet(SourceEvents)
       /\ pc = "failed" /\ checks = 0 /\ folded = {} /\ SourceEvents # {} =>
             error # "KeyError"
       /\ SourceEvents = {} /\ pc \notin {"execute", "smap", "store"} =>
             pc = "failed" /\ error = "KeyError"

\* the group of the later serials arrived first: the events were stored
\* against the order of their ids
C23_Witness ==
    /\ FromSourcesRun
    /\ AfterFromSources
    /\ ArrivalOrder = <<1, 0>>
    /\ \A k \in 1..2 : \E j \in DOMAIN srcs_by_grp[k].srcs :
           srcs_by_grp[k].srcs[j].eb_ruptures # <<>>
    /\ srcs_by_grp[1].srcs[1].eb_ruptures # <<>>
    /\ srcs_by_grp[1].srcs[1].eb_ruptures[1].serial > 0
    /\ "events" \in DOMAIN datastore
    /\ Len(datastore["events"]) >= 2

(***************************************************************************)
(* C24: task_arg_gen yields, for each taxonomy, one task per block of      *)
(* block_size assets, the last block possibly shorter: the number of tasks *)
(* is the sum over the taxonomies of the asset count divided by block_size *)
(* and rounded up, the sanity check never raises, and a taxonomy without   *)
(* assets yields no task.                                                  *)
(***************************************************************************)
CeilDiv(n, b) == (n + b - 1) \div b

YieldedFor(t) == {k \in DOMAIN arg_gen.yielded : arg_gen.yielded[k][1] = t}

C24_TasksAsExpected ==
    arg_gen.pc # "idle" =>
       /\ arg_gen.pc # "RuntimeError"
       /\ arg_gen.num_tasks = Len(arg_gen.yielded)
       /\ \A t \in DOMAIN arg_gen.taxonomies_asset_count :
             /\ arg_gen.taxonomies_asset_count[t] = 0 => YieldedFor(t) = {}
             /\ arg_gen.t > t =>
                   Cardinality(YieldedFor(t)) =
                      CeilDiv(arg_gen.taxonomies_asset_count[t],
                              arg_gen.block_size)
       /\ arg_gen.pc = "return" =>
             arg_gen.num_tasks =
                SumSeq([t \in DOMAIN arg_gen.taxonomies_asset_count |->
                           CeilDiv(arg_gen.taxonomies_asset_count[t],
                                   arg_gen.block_size)])

\* a taxonomy without assets and one whose last block is shorter
C24_Witness ==
    /\ arg_gen.pc = "return"
    /\ Len(arg_gen.taxonomies_asset_count) = 2
    /\ arg_gen.taxonomies_asset_count[1] = 0
    /\ arg_gen.taxonomies_asset_count[2] % arg_gen.block_size # 0
    /\ arg_gen.taxonomies_asset_count[2] > arg_gen.block_size
    /\ arg_gen.num_tasks >= 2

(***************************************************************************)
(* C25: the size stored in the attribute max_gmf_size of events is an      *)
(* estimate by excess of the size of gmf_data/data: the rows of the        *)
(* dataset, of 2 + 4 + 8 + 4 * num_imts bytes each, take at most that many *)
(* bytes, and a run without the attribute has no row.                      *)
(***************************************************************************)
C25_SizeByExcess ==
    FromSourcesRun /\ ~BeforeSort =>
       IF "events" \in DOMAIN attrs
       THEN Len(GmfData) * RowBytes <= attrs["events"].max_gmf_size
       ELSE GmfData = <<>>

(***************************************************************************)
(* C26: a getter queries the database at most once for each location, and *)
(* every call of get_by_site for a location returns what the first call    *)
(* for that location returned.                                             *)
(***************************************************************************)
FirstCall(k) ==
    CHOOSE j \in 1..k :
       /\ getter.returned[j][1] = getter.returned[k][1]
       /\ \A i \in 1..(j - 1) : getter.returned[i][1] # getter.returned[k][1]

C26_OneQueryPerLocation ==
    getter.pc # "idle" =>
       /\ \A i, j \in DOMAIN getter.queries :
             getter.queries[i].wkt = getter.queries[j].wkt => i = j
       /\ \A k \in DOMAIN getter.returned :
             getter.returned[k][2] = getter.returned[FirstCall(k)][2]
       /\ {getter.returned[k][1] : k \in DOMAIN getter.returned}
             \subseteq {getter.queries[i].wkt : i \in DOMAIN getter.queries}

\* three calls for one location after a call for the other one: two queries
C26_Witness ==
    /\ Len(getter.returned) = 4
    /\ Len(getter.queries) = 2
    /\ getter.returned[1][1] # getter.returned[2][1]
    /\ \A k \in 2..4 : getter.returned[k][1] = getter.returned[2][1]

(***************************************************************************)
(* C27: when execute has written gmf_data/events_by_sid, the entry of a    *)
(* site is the sum of stop - start over the ranges recorded for the site,  *)
(* which is the number of rows of the site in gmf_data/data; the entries   *)
(* add up to the number of rows of the dataset, which is self.offset;      *)
(* avg_events_by_sid is that number over the number of sites of the        *)
(* complete site collection and max_events_by_sid is the largest entry.    *)
(***************************************************************************)
RECURSIVE RowsIn(_)
RowsIn(ranges) ==
    IF ranges = {} THEN 0
    ELSE LET rg == CHOOSE x \in ranges : TRUE
         IN (rg[3] - rg[2]) + RowsIn(ranges \ {rg})

RECURSIVE Total(_, _)
Total(f, S) ==
    IF S = {} THEN 0
    ELSE LET x == CHOOSE y \in S : TRUE IN f[x] + Total(f, S \ {x})

NumEvs == datastore["gmf_data/events_by_sid"]

C27_EventsBySid ==
    "gmf_data/events_by_sid" \in DOMAIN datastore =>
       /\ DOMAIN NumEvs = {sid \in Sids : sid < sitecol.complete}
       /\ \A sid \in DOMAIN NumEvs :
             /\ NumEvs[sid] = RowsIn(SiteRanges(indices, sid))
             /\ NumEvs[sid] =
                   Cardinality({p \in DOMAIN GmfData : GmfData[p].sid = sid})
       /\ Total(NumEvs, DOMAIN NumEvs) = Len(GmfData)
       /\ Total(NumEvs, DOMAIN NumEvs) = offset
       /\ "gmf_data" \in DOMAIN attrs
       /\ attrs["gmf_data"].avg_events_by_sid = <<offset, sitecol.complete>>
       /\ \A sid \in DOMAIN NumEvs :
             NumEvs[sid] <= attrs["gmf_data"].max_events_by_sid
       /\ \E sid \in DOMAIN NumEvs :
             NumEvs[sid] = attrs["gmf_data"].max_events_by_sid

\* a site with two ranges that do not start at 0, and a site with fewer rows
C27_Witness ==
    /\ "gmf_data/events_by_sid" \in DOMAIN datastore
    /\ pc = "done"
    /\ \E sid \in DOMAIN NumEvs :
          /\ Cardinality(SiteRanges(indices, sid)) = 2
          /\ \E rg \in SiteRanges(indices, sid) : rg[2] > 0
          /\ \E other \in DOMAIN NumEvs :
                0 < NumEvs[other] /\ NumEvs[other] < NumEvs[sid]

(***************************************************************************)
(* C28: agg_dicts raises the RuntimeError about the rows of gmf_data only  *)
(* when more than 2^32 rows were appended to gmf_data/data: a run with     *)
(* exactly 2^32 rows is accepted, a run below the limit never raises it.   *)
(***************************************************************************)
C28_RaisedOnlyAboveLimit ==
    /\ error = "RuntimeError: rows" => offset > TWO32
    /\ offset = TWO32 /\ pc \in {"failed", "done"} => error # "RuntimeError: rows"

(***************************************************************************)
(* C29: the batches that build_ruptures yields, with the content they have *)
(* when they are yielded and in the order of the yields, are consecutive   *)
(* pieces of the input: together they hold every source once and in input  *)
(* order.  Every batch but possibly the last has more ruptures than        *)
(* ruptures_per_block, and not more than that without its last source.     *)
(***************************************************************************)
IsPrefix(s, t) == Len(s) <= Len(t) /\ s = SubSeq(t, 1, Len(s))

C29_BatchesPartitionSources ==
    Building =>
       /\ IsPrefix(Concat(builder.yielded), builder.srcs)
       /\ \A k \in DOMAIN builder.yielded : builder.yielded[k] # <<>>
       /\ builder.pc = "return" => Concat(builder.yielded) = builder.srcs
       /\ \A k \in 1..(Len(builder.yielded) - 1) :
             /\ NumRuptures(builder.yielded[k]) > builder.ruptures_per_block
             /\ NumRuptures(ButLast(builder.yielded[k]))
                   <= builder.ruptures_per_block

\* three batches: two flushed by the budget and a last one below it
C29_Witness ==
    /\ builder.pc = "return"
    /\ Len(builder.yielded) = 3
    /\ Len(builder.srcs) = MaxBlock
    /\ NumRuptures(builder.yielded[3]) <= builder.ruptures_per_block
    /\ NumRuptures(builder.yielded[3]) > 0

(***************************************************************************)
(* C30: a batch that the consumer holds keeps the sources it was yielded   *)
(* with after the generator is resumed, and no source is in two of the     *)
(* batches that the consumer holds: put one after the other, the held      *)
(* batches are the sources that were yielded, each once.                   *)
(***************************************************************************)
\* what the consumer sees in the k-th batch it holds
HeldBatch(k) ==
    IF builder.held[k] = builder.ref THEN builder.acc
    ELSE builder.dead[builder.held[k]]

C30_HeldBatchesKeepContents ==
    Building =>
       /\ Len(builder.held) = Len(builder.yielded)
       /\ \A k \in DOMAIN builder.held : HeldBatch(k) = builder.yielded[k]
       /\ IsPrefix(Concat([k \in DOMAIN builder.held |-> HeldBatch(k)]),
                   builder.srcs)

(***************************************************************************)
(* C31: every argument tuple that was pulled from genargs has, in its      *)
(* parameter dictionary, the 'samples' of the group of its own ruptures,   *)
(* however many tuples were pulled after it.                               *)
(***************************************************************************)
C31_OwnSamples ==
    \A k \in DOMAIN gen_args.pulled :
       gen_args.pars[gen_args.pulled[k].par].samples =
          gen_args.samples_by_grp[gen_args.pulled[k].grp_id]

(***************************************************************************)
(* C32: a call of agg_dicts changes only what its result names.  A result  *)
(* without 'gmdata' leaves offset, indices, gmdata and gmf_data/data as    *)
(* they are; a result without curve contributions leaves the accumulator   *)
(* as it is; and a probability of the accumulator changes only if the      *)
(* result has a contribution for its realization, its site and the IMT of  *)
(* its level (a level of a site without a curve counts as zero).           *)
(***************************************************************************)
Cell(a, r, sid, l) == IF sid \in DOMAIN a[r] THEN a[r][sid][l] ELSE Zero

C32_Step ==
    \A i \in DOMAIN results :
       IsFold(i) =>
          /\ ~results[i].has_gmdata =>
                /\ UNCHANGED <<offset, indices, gmdata>>
                /\ GmfData' = GmfData
          /\ results[i].hcurves = <<>> => acc' = acc
          /\ DOMAIN acc' = DOMAIN acc
          /\ \A r \in DOMAIN acc, sid \in Sids, l \in 1..L :
                Cell(acc', r, sid, l) # Cell(acc, r, sid, l) =>
                   \E k \in DOMAIN results[i].hcurves :
                      /\ results[i].hcurves[k].r = r
                      /\ results[i].hcurves[k].sid = sid
                      /\ l \in imtls(results[i].hcurves[k].imt)

C32_OnlyWhatTheResultNames == [][C32_Step]_vars

\* after a result with rows, a result without 'gmdata' and with a curve for
\* PGA was folded: the level of PGA changed, the level of SA did not
C32_Witness ==
    /\ offset > 0
    /\ \E i \in folded : ~results[i].has_gmdata /\ results[i].hcurves # <<>>
    /\ \E i \in folded : results[i].has_gmdata /\ results[i].hcurves = <<>>
    /\ 0 \in DOMAIN acc
    /\ 0 \in DOMAIN acc[0]
    /\ acc[0][0][1] # Zero
    /\ acc[0][0][2] = Zero

(***************************************************************************)
(* C33, as claimed: save_ruptures is atomic with respect to the two        *)
(* stores.  Whether a call returned or raised, a rupture is in the rupture *)
(* store if and only if its events are in the events dataset.              *)
(***************************************************************************)
C33_RupturesIffEvents ==
    \A i \in DOMAIN csm :
       \A j \in DOMAIN csm[i].eb_ruptures :
          LET rup == csm[i].eb_ruptures[j]
              evs == ebr_get_events(rup, rlzs_by_gsim_grp[rup.grp_id])
          IN rup \in Range(Get(datastore, "ruptures", <<>>))
                <=> Range(evs) \subseteq Range(Get(datastore, "events", <<>>))

(***************************************************************************)
(* C34, as claimed: what get_by_site returns for (site, hazard_id, imls)   *)
(* is the curve of the requested hazard_id paired with the requested imls, *)
(* in every sequence of calls on one getter.                               *)
(***************************************************************************)
C34_RequestedCurve ==
    \A k \in DOMAIN getter.returned :
       /\ getter.returned[k][2].hazard_curve_id = getter.returned[k][3].hazard_id
       /\ getter.returned[k][2].imls = getter.returned[k][3].imls

(***************************************************************************)
(* C35, as claimed: HazardGetter.__call__ returns a list of assets and a   *)
(* list of hazard data of the same length, the i-th data item being the    *)
(* hazard of the i-th asset, whatever ids get_data returned.               *)
(***************************************************************************)
C35_ParallelLists ==
    call.fn = "HazardGetter.__call__" /\ call.pc = "returned" =>
       /\ Len(call.result[1]) = Len(call.result[2])
       /\ \A i \in DOMAIN call.result[1] :
             call.result[2][i].hazard_of = call.result[1][i].id

(***************************************************************************)
(* C36, as claimed: compute_loss_ratios returns one loss ratio for each    *)
(* ground motion value, in order: 0.0 below the first IML, the ordinate of *)
(* the function inside the range of the IMLs and the loss ratio at the     *)
(* last IML above it; the empty list for the empty curve or an empty       *)
(* field.                                                                  *)
(***************************************************************************)
C36_LossRatios ==
    call.fn = "compute_loss_ratios" /\ call.pc = "returned" =>
       LET vf == call.args.vuln_function
           gmvs == call.args.ground_motion_field.IMLs
       IN IF vf = <<>> \/ gmvs = <<>>
          THEN call.result = <<>>
          ELSE /\ Len(call.result) = Len(gmvs)
               /\ \A k \in DOMAIN gmvs :
                     call.result[k] =
                        IF gmvs[k] < vf[1].iml THEN 0
                        ELSE IF gmvs[k] > vf[Len(vf)].iml
                             THEN vf[Len(vf)].loss_ratio
                             ELSE ordinate_for(vf, gmvs[k])

====
